---- MODULE Spec2Model ----
(***************************************************************************)
(* MCP client of yoichiojima-2/yac: the Session (SimpleClientSession) and  *)
(* the Connection Registry (MCPClient).  The repository ships two          *)
(* packages with the same classes, src/yac and src/yet_claude_code; the    *)
(* variable impl says which package's classes are instantiated ("yac" or   *)
(* "ycc"), and every operation is translated from both.                    *)
(*                                                                         *)
(* The callers are asyncio tasks.  A task runs without interruption from   *)
(* one await that suspends to the next, so one step of the model is one    *)
(* such segment of a coroutine: the code from the point where the task     *)
(* resumes up to the next suspending await (or the return).                *)
(***************************************************************************)
EXTENDS Integers, Sequences, FiniteSets, TLC

\* ------------------------------------------------------------- bounds
MaxProcs == 2        \* child processes spawned in one behaviour
MaxId    == 5        \* largest request id a Session allocates
MaxEmit  == 3        \* lines read from the stdout of one child process
ChunkCap == 2        \* the 1 MiB reassembly cap, counted in lines swallowed
MaxOps   == 3        \* operations the callers start in one behaviour
MaxOpsConc == 2      \* the same, when the callers overlap

\* ------------------------------------------------- program constants
max_attempts == 10   \* lines read for one response (yac _send_request)

Names == {"s1", "s2"}
Tasks == {"t1", "t2"}
Procs == 1..MaxProcs

\* ------------------------------------------------------------ values
\* ServerConfig: the transport and, for STDIO, whether the command can be
\* executed (create_subprocess_exec raises FileNotFoundError otherwise).
Cfg(n, tr, cmd) == [name |-> n, transport |-> tr, command |-> cmd]
NoCfg == Cfg("", "", "")
Configs == {Cfg(n, "stdio", c) : n \in Names, c \in {"ok", "missing"}}
           \cup {Cfg(n, tr, "") : n \in Names, tr \in {"sse"}}

\* The "result" object of a response.  RA is a conforming result (a tools
\* array, content, isError false); RB lacks "tools" and reports isError.
Res(ht, tl, c, e) == [hasTools |-> ht, tools |-> tl, content |-> c, isError |-> e]
NoRes == Res(FALSE, <<>>, "", FALSE)
RA == Res(TRUE, <<"read_file">>, "data", FALSE)
RB == Res(FALSE, <<>>, "tool failed", TRUE)
Results == {RA, RB}

\* One line of a child's stdout.  k: "notif" (a JSON object with "method"
\* and no "id"), "bad" (not JSON), "res" (id and "result"), "err" (id and
\* "error"), "nil" (id, neither "result" nor "error").
Line(k, id, r) == [k |-> k, id |-> id, res |-> r]
NoLine == Line("", 0, NoRes)
Notif == Line("notif", 0, NoRes)
Bad == Line("bad", 0, NoRes)
Lines == {Notif, Bad}
         \cup {Line(k, id, NoRes) : k \in {"err", "nil"}, id \in 1..MaxId}
         \cup {Line("res", id, r) : id \in 1..MaxId, r \in Results}

\* What an operation returned to its caller.  k: "bool", "raise" (an
\* exception left the operation, msg names it), "toolresult" (MCPToolResult:
\* msg is content, b is is_error), "dict" (the raw result object, res),
\* "map" (server name -> tools, m).
Ret(k, b, msg, r, m) == [k |-> k, b |-> b, msg |-> msg, res |-> r, m |-> m]
NoRet == Ret("none", FALSE, "", NoRes, <<>>)
RetBool(b) == Ret("bool", b, "", NoRes, <<>>)
RetRaise(msg) == Ret("raise", FALSE, msg, NoRes, <<>>)
RetToolResult(c, e) == Ret("toolresult", e, c, NoRes, <<>>)
RetDict(r) == Ret("dict", FALSE, "", r, <<>>)
RetMap(m) == Ret("map", FALSE, "", NoRes, m)

\* A Python dict is a function whose DOMAIN is its key set.
Put(f, k, v) == [x \in DOMAIN f \cup {k} |-> IF x = k THEN v ELSE f[x]]
Del(f, k) == [x \in DOMAIN f \ {k} |-> f[x]]
EmptyDict == [x \in {} |-> 0]

VARIABLES
  impl,         \* "yac": src/yac/mcp, "ycc": src/yet_claude_code/mcp
  serial,       \* TRUE: the caller starts an operation only when none is running
  servers,      \* ycc MCPClient.servers: name -> ServerConfig
  sessions,     \* MCPClient.sessions: name -> Session (named by its process)
  processes,    \* ycc MCPClient.processes: name -> process
  tools_cache,  \* yac MCPClient.tools_cache: name -> list of tools
  proc,         \* the child processes: state, pipes, signals received
  request_id,   \* SimpleClientSession._request_id of the Session of a process
  nprocs,       \* processes spawned so far
  nops,         \* operations started so far
  task,         \* the asyncio tasks: operation, position, locals, return value
  pipe,         \* the stdout pipe of one child, block by block (see Stream)
  rd,           \* one _send_request reading from pipe
  handlers,     \* ErrorHandlerRegistry.handlers, each by how it treats the error
  hres,         \* what the last handle_error did
  net,          \* one retry of a tool after a network error
  made,         \* one construction of an MCPServerConfig
  chain         \* one handle_error of a registry with the built-in handlers only

vars == <<impl, serial, servers, sessions, processes, tools_cache, proc,
          request_id, nprocs, nops, task, pipe, rd, handlers, hres, net,
          made, chain>>

\* The registry with its processes and tasks; the pipe with its reader.
mcpvars == <<servers, sessions, processes, tools_cache, proc, request_id,
             nprocs, nops, task>>
streamvars == <<pipe, rd>>
regvars == <<handlers, hres, net, made, chain>>

\* pipe and rd when no pipe is looked at block by block.
NoPipe == [script |-> <<>>, pending |-> <<>>, buf |-> <<>>, eof |-> FALSE]
NoRd == [pc |-> "none", line |-> <<>>, add |-> <<>>, att |-> 0, bound |-> 0,
         k |-> "", m |-> 0, msg |-> ""]
\* hres before any handle_error.
NoHres == [pc |-> "none", hs |-> <<>>, k |-> "", by |-> 0, tried |-> {}, asked |-> {},
           msg |-> ""]
\* made when no config is being constructed.
NoMade == [pc |-> "none", name |-> "", transport |-> "", command |-> "None",
           url |-> "None", k |-> ""]
\* chain when no such handle_error is running.
NoChain == [pc |-> "none", err |-> {}, args |-> "None", tool_name |-> "",
            present |-> FALSE, i |-> 0, by |-> "", msg |-> ""]
\* net when no retry is running.
NoNet == [pc |-> "none", max_retries |-> 0, retry_delay |-> 1, present |-> FALSE,
          attempt |-> 0,
          n |-> 0, slept |-> 0, msg |-> "", res |-> "", err |-> ""]

\* A child process: st is "none", "running", "exited" (it has a return code)
\* or "reaped" (asyncio closed its transport); stdin is what was written to it;
\* term and kill say which signals it was sent; emitted counts the lines read
\* from its stdout.  What it writes is chosen when it is read: see PeerLines.
\* Two fields record the history of the Session that owns the process, which
\* the code keeps nowhere: failed (a request on it raised a protocol error),
\* closed (a close() on it returned), late (the id of the last request on it
\* that failed because a wait_for elapsed, 0 when there is none).
\* What the line taken as the answer of the handshake was: the response to the
\* request of that id without an error member, or anything else.
Handshake(line, id) ==
  IF line.k \in {"res", "nil"} /\ line.id = id THEN "response" ELSE "other"

NoProc == [st |-> "none", stdin |-> <<>>, term |-> FALSE, kill |-> FALSE,
           emitted |-> 0, failed |-> FALSE, closed |-> FALSE, init |-> "none",
           late |-> 0]

Idle == [op |-> "idle", pc |-> "idle", name |-> "", cfg |-> NoCfg, p |-> 0,
         cur |-> "", rid |-> 0, method |-> "", att |-> 0, bound |-> FALSE, acc |-> 0,
         todo |-> {}, n0 |-> 0, tools |-> EmptyDict, resp |-> NoLine,
         ret |-> NoRet]

\* The registry and the processes as one value, so that the statements of a
\* segment compose: each operator below maps a state and a task to the state
\* and task after the statements it models.
St == [servers |-> servers, sessions |-> sessions, processes |-> processes,
       tools_cache |-> tools_cache, proc |-> proc, request_id |-> request_id,
       nprocs |-> nprocs]

Out(s, tk) == [s |-> s, tk |-> tk]

\* The task is not inside an operation.
Free(t) == task[t].pc \in {"idle", "done"}

Apply(t, o) ==
  /\ servers' = o.s.servers
  /\ sessions' = o.s.sessions
  /\ processes' = o.s.processes
  /\ tools_cache' = o.s.tools_cache
  /\ proc' = o.s.proc
  /\ request_id' = o.s.request_id
  /\ nprocs' = o.s.nprocs
  /\ task' = [task EXCEPT ![t] = o.tk]
  /\ nops' = IF Free(t) THEN nops + 1 ELSE nops
  /\ UNCHANGED <<impl, serial, streamvars, regvars>>

\* The operation is over: its locals are dropped, its return value is kept.
Done(tk, r) == [Idle EXCEPT !.op = tk.op, !.pc = "done", !.name = tk.name,
                            !.cfg = tk.cfg, !.p = tk.p, !.rid = tk.rid,
                            !.resp = tk.resp, !.ret = r]

Init ==
  /\ impl \in {"yac", "ycc"}
  /\ serial \in BOOLEAN
  /\ servers = EmptyDict
  /\ sessions = EmptyDict
  /\ processes = EmptyDict
  /\ tools_cache = EmptyDict
  /\ proc = [p \in Procs |-> NoProc]
  /\ request_id = [p \in Procs |-> 0]
  /\ nprocs = 0
  /\ nops = 0
  /\ task = [t \in Tasks |-> Idle]
  /\ pipe = NoPipe
  /\ rd = NoRd
  /\ handlers = <<>>
  /\ hres = NoHres
  /\ net = NoNet
  /\ made = NoMade
  /\ chain = NoChain

\* ------------------------------------------------- the child process
\* asyncio's Process.terminate(): SIGTERM to a running child, nothing for one
\* that exited, ProcessLookupError once the transport has been closed.
terminate(s, p) ==
  IF s.proc[p].st = "reaped" THEN [ok |-> FALSE, s |-> s]
  ELSE IF s.proc[p].st = "running"
       THEN [ok |-> TRUE, s |-> [s EXCEPT !.proc[p].term = TRUE]]
       ELSE [ok |-> TRUE, s |-> s]

\* A spawn that hands every caller the same child.
spawn_shared(s) ==
  IF s.nprocs >= 1 THEN s
  ELSE [s EXCEPT !.nprocs = 1, !.proc[1] = [NoProc EXCEPT !.st = "running"]]

\* create_subprocess_exec succeeded: a new running child with empty pipes.
spawn(s) ==
  LET p == s.nprocs + 1
  IN [s EXCEPT !.nprocs = p, !.proc[p] = [NoProc EXCEPT !.st = "running"]]

\* stdin.write(request) and drain(): the request reaches a running child;
\* the pipe of a child that exited raises ConnectionResetError.
CanWrite(s, p) == s.proc[p].st = "running"
write(s, p, id, method) ==
  [s EXCEPT !.proc[p].stdin = Append(@, [id |-> id, method |-> method])]

\* ------------------------------------------------ Session: requests
\* What _send_request raises on a response that is unmatched, oversized or
\* malformed.
ProtocolErrors == {"Could not find matching response",
                   "Response too large or malformed",
                   "Response incomplete or server hung",
                   "Failed to read large response", "UnboundLocalError"}

\* What it raises when a wait_for elapses on a child that is running (the
\* first also at end of file).
TimeoutErrors == {"No response from server", "Response incomplete or server hung"}

\* What a read segment of _send_request ends in: "more" (suspended at the
\* next read), "ret" (resp is returned to the caller), "exc" (msg is raised).
More(s, tk) == [kind |-> "more", s |-> s, tk |-> tk, msg |-> ""]
Return(s, tk, line) ==
  [kind |-> "ret", s |-> s, tk |-> [tk EXCEPT !.resp = line], msg |-> ""]
Raise(s, tk, msg) ==
  LET s1 == IF msg \in TimeoutErrors /\ s.proc[tk.p].st = "running"
            THEN [s EXCEPT !.proc[tk.p].late = tk.rid] ELSE s
  IN [kind |-> "exc", tk |-> tk, msg |-> msg,
      s |-> IF msg \in ProtocolErrors THEN [s1 EXCEPT !.proc[tk.p].failed = TRUE]
            ELSE s1]

\* _next_id, then the write: the first half of _send_request, up to the
\* first read.  The id is allocated before the write can fail.
send_request(s, tk, p, method) ==
  LET id == s.request_id[p] + 1
      s1 == [s EXCEPT !.request_id[p] = id]
      tk1 == [tk EXCEPT !.p = p, !.rid = id, !.method = method, !.att = 0,
                        !.bound = FALSE, !.acc = 0, !.resp = NoLine]
  IN IF CanWrite(s, p)
     THEN More(write(s1, p, id, method), [tk1 EXCEPT !.pc = "read"])
     ELSE Raise(s1, tk1, "ConnectionResetError")

\* yac: a parsed line that is not the awaited response ends one iteration
\* of the for loop; the loop's else clause raises after max_attempts lines.
yac_nomatch(s, tk) ==
  IF tk.att + 1 >= max_attempts
  THEN Raise(s, tk, "Could not find matching response")
  ELSE More(s, [tk EXCEPT !.pc = "read", !.att = @ + 1, !.bound = TRUE])

\* yac: the id test, then the "error" test after the loop.
yac_match(s, tk, line) ==
  IF line.k \in {"res", "err", "nil"} /\ line.id = tk.rid
  THEN IF line.k = "err" THEN Raise(s, tk, "Server error")
       ELSE Return(s, tk, line)
  ELSE yac_nomatch(s, tk)

\* One line was taken from the stdout of p.
consume(s, p) == [s EXCEPT !.proc[p].emitted = @ + 1]

\* Reassembly, one read(8192) that returned bytes: the next line of the child
\* is swallowed and appended to the line that did not parse (which stays
\* unparseable); the while loop ends in its else clause at the cap.
chunk(s, tk) ==
  IF tk.acc + 1 < ChunkCap
  THEN More(consume(s, tk.p), [tk EXCEPT !.acc = @ + 1])
  ELSE Raise(consume(s, tk.p), tk, "Response too large or malformed")

\* yac _send_request from the readline on; data says whether the read got
\* bytes, the line (FALSE: the timeout elapsed, or end of file).  In the
\* reassembly loop, no bytes from a running child is the 1 s timeout, and no
\* bytes at end of file is the break that leaves the loop without a response.
yac_send_request(s, tk, data, line) ==
  LET p == tk.p
      s1 == consume(s, p)
  IN IF tk.pc = "read"
     THEN IF ~data THEN Raise(s, tk, "No response from server")
          ELSE IF line.k = "bad" THEN More(s1, [tk EXCEPT !.pc = "chunk"])
          ELSE yac_match(s1, tk, line)
     ELSE IF data THEN chunk(s, tk)
          ELSE IF s.proc[p].st = "running"
               THEN Raise(s, tk, "Response incomplete or server hung")
          ELSE IF tk.bound THEN yac_nomatch(s, tk)
          ELSE Raise(s, tk, "UnboundLocalError")

\* ycc _send_request from the readline on: the first line that parses is the
\* response, whatever its id; the readline has no timeout.
ycc_send_request(s, tk, data, line) ==
  LET p == tk.p
      s1 == consume(s, p)
  IN IF tk.pc = "read"
     THEN IF ~data THEN Raise(s, tk, "No response from server")
          ELSE IF line.k = "bad" THEN More(s1, [tk EXCEPT !.pc = "chunk"])
          ELSE IF line.k = "err" THEN Raise(s1, tk, "Server error")
          ELSE Return(s1, tk, line)
     ELSE IF data
          THEN LET c == chunk(s, tk)
               IN IF c.kind = "exc"
                  THEN Raise(c.s, c.tk, "Failed to read large response")
                  ELSE c
          ELSE IF s.proc[p].st = "running"
               THEN Raise(s, tk, "Response incomplete or server hung")
          ELSE Raise(s, tk, "UnboundLocalError")

\* Session.list_tools: result.tools, or the empty list when the shape is absent.
session_list_tools(line) ==
  IF line.k = "res" /\ line.res.hasTools THEN line.res.tools ELSE <<>>

\* yac Session.call_tool: the result verbatim, or the default error result.
yac_session_call_tool(line) ==
  IF line.k = "res" THEN line.res ELSE Res(FALSE, <<>>, "", TRUE)

\* ycc Session.call_tool: the ToolResult shim; isError is false unless the
\* result carries one.
ycc_session_call_tool(line) ==
  IF line.k = "res" THEN Res(FALSE, <<>>, line.res.content, line.res.isError)
  ELSE Res(FALSE, <<>>, "", FALSE)

\* Session.close up to its first suspension: terminate(), then wait().  A
\* child that already exited has a return code, so wait() returns at once; a
\* running one suspends the caller ("more").
close(s, tk, p) ==
  LET r == terminate(s, p)
  IN IF ~r.ok THEN Raise(s, tk, "ProcessLookupError")
     ELSE IF s.proc[p].st = "running"
          THEN More(r.s, [tk EXCEPT !.pc = "wait", !.p = p])
          ELSE Return([r.s EXCEPT !.proc[p].closed = TRUE], tk, tk.resp)

\* ------------------------------------------------ yac MCPClient
yac_add_server(s, tk) ==
  IF tk.cfg.transport = "stdio"
  THEN Out(s, [tk EXCEPT !.pc = "spawn"])
  ELSE Out(s, Done(tk, RetBool(FALSE)))

\* connect after create_subprocess_exec: FileNotFoundError ends add_server
\* with False; otherwise the initialize request is written.
yac_connect(s, tk) ==
  IF tk.cfg.command = "missing" THEN Out(s, Done(tk, RetBool(FALSE)))
  ELSE LET s1 == spawn(s)
           p == s1.nprocs
           r == send_request([s1 EXCEPT !.request_id[p] = 1], tk, p, "initialize")
       IN Out(r.s, r.tk)

\* A faulty _cache_server_tools, which C7 must tell from the code's: a failed
\* list_tools leaves the cache as it was.
yac_cache_server_tools_keep(s, tk, o) ==
  IF o.kind = "ret"
  THEN [s EXCEPT !.tools_cache = Put(@, tk.name, session_list_tools(o.tk.resp))]
  ELSE s

\* _cache_server_tools after list_tools returned or raised.
yac_cache_server_tools(s, tk, o) ==
  IF o.kind = "ret"
  THEN [s EXCEPT !.tools_cache = Put(@, tk.name, session_list_tools(o.tk.resp))]
  ELSE [s EXCEPT !.tools_cache = Put(@, tk.name, <<>>)]

\* add_server once connect returned: the Session is registered, then
\* _cache_server_tools looks it up again and sends tools/list.
yac_add_server_connected(s, tk, o) ==
  IF o.kind = "exc" THEN Out(s, Done(tk, RetBool(FALSE)))
  ELSE LET s1 == [s EXCEPT !.sessions = Put(@, tk.name, tk.p),
                           !.proc[tk.p].init =
                             Handshake(tk.resp, s.proc[tk.p].stdin[1].id)]
           r == send_request(s1, tk, s1.sessions[tk.name], "tools/list")
       IN IF r.kind = "exc"
          THEN Out(yac_cache_server_tools(r.s, tk, r), Done(r.tk, RetBool(TRUE)))
          ELSE Out(r.s, r.tk)

yac_call_tool(s, tk) ==
  IF tk.name \notin DOMAIN s.sessions
  THEN Out(s, Done(tk, RetRaise("not connected")))
  ELSE LET r == send_request(s, tk, s.sessions[tk.name], "tools/call")
       IN IF r.kind = "exc" THEN Out(r.s, Done(r.tk, RetRaise(r.msg)))
          ELSE Out(r.s, r.tk)

yac_list_tools(s, tk) ==
  IF tk.name # ""
  THEN IF tk.name \in DOMAIN s.tools_cache
       THEN Out(s, Done(tk, RetMap(Put(EmptyDict, tk.name, s.tools_cache[tk.name]))))
       ELSE Out(s, Done(tk, RetMap(EmptyDict)))
  ELSE Out(s, Done(tk, RetMap(s.tools_cache)))

\* remove_server after close returned (o.kind = "ret") or raised: the del
\* statements are inside the try, behind the close.
yac_remove_server_closed(s, tk, o) ==
  IF o.kind = "exc" \/ tk.name \notin DOMAIN s.sessions
  THEN Out(s, Done(tk, RetBool(FALSE)))
  ELSE Out([s EXCEPT !.sessions = Del(@, tk.name),
                     !.tools_cache = Del(@, tk.name)],
           Done(tk, RetBool(TRUE)))

yac_remove_server(s, tk) ==
  IF tk.name \notin DOMAIN s.sessions THEN Out(s, Done(tk, RetBool(FALSE)))
  ELSE LET r == close(s, tk, s.sessions[tk.name])
       IN IF r.kind = "more" THEN Out(r.s, r.tk)
          ELSE yac_remove_server_closed(r.s, r.tk, r)

\* close_all from the head of its for loop over sessions.values(), a live
\* view (n0 is the size the dict had when the loop began; the iterator raises
\* RuntimeError when it changed).  A close() that raises is logged and passed
\* over.  Behind the loop both maps are cleared.
RECURSIVE yac_close_all_loop(_, _)
yac_close_all_loop(s, tk) ==
  IF Cardinality(DOMAIN s.sessions) # tk.n0
  THEN {Out(s, Done(tk, RetRaise("RuntimeError")))}
  ELSE IF tk.todo = {}
  THEN {Out([s EXCEPT !.sessions = EmptyDict, !.tools_cache = EmptyDict],
            Done(tk, NoRet))}
  ELSE UNION {
    LET tk1 == [tk EXCEPT !.todo = @ \ {n}, !.cur = n]
    IN IF n \notin DOMAIN s.sessions THEN yac_close_all_loop(s, tk1)
       ELSE LET r == close(s, tk1, s.sessions[n])
            IN IF r.kind = "more" THEN {Out(r.s, r.tk)}
               ELSE yac_close_all_loop(r.s, tk1)
    : n \in tk.todo }

yac_close_all(s, tk) ==
  yac_close_all_loop(s, [tk EXCEPT !.todo = DOMAIN s.sessions,
                                   !.n0 = Cardinality(DOMAIN s.sessions)])

\* A request of a yac operation returned or raised.
yac_resume(s, tk, o) ==
  IF tk.op = "add_server"
  THEN IF tk.method = "initialize" THEN yac_add_server_connected(s, tk, o)
       ELSE Out(yac_cache_server_tools(s, tk, o), Done(tk, RetBool(TRUE)))
  ELSE IF o.kind = "ret"
       THEN Out(s, Done(tk, RetDict(yac_session_call_tool(tk.resp))))
       ELSE Out(s, Done(tk, RetRaise(o.msg)))

\* ------------------------------------------------ ycc MCPClient
\* The except clause of _connect_stdio_server: whatever process is stored
\* under the name is terminated and forgotten; a failing terminate is passed
\* over, and the entry stays.
ycc_cleanup(s, tk) ==
  IF tk.name \notin DOMAIN s.processes THEN s
  ELSE LET r == terminate(s, s.processes[tk.name])
       IN IF r.ok THEN [r.s EXCEPT !.processes = Del(@, tk.name)] ELSE s

ycc_add_server(s, tk) ==
  LET s1 == [s EXCEPT !.servers = Put(@, tk.name, tk.cfg)]
  IN IF tk.cfg.transport = "stdio"
     THEN Out(s1, [tk EXCEPT !.pc = "spawn"])
     ELSE Out(s1, Done(tk, RetBool(TRUE)))

\* _connect_stdio_server after create_subprocess_exec: the process is stored,
\* then the initialize request, id 1, is written.
ycc_connect_stdio_server(s, tk) ==
  IF tk.cfg.command = "missing"
  THEN Out(ycc_cleanup(s, tk), Done(tk, RetBool(FALSE)))
  ELSE LET s1 == spawn(s)
           p == s1.nprocs
           s2 == [s1 EXCEPT !.processes = Put(@, tk.name, p)]
       IN Out(write(s2, p, 1, "initialize"),
              [tk EXCEPT !.pc = "read", !.p = p, !.rid = 1,
                         !.method = "initialize"])

\* _connect_stdio_server from its readline on: one line, no timeout, no id
\* test; the Session is created (its counter at 1) and registered.
ycc_handshake(s, tk, data, line) ==
  LET p == tk.p
      s1 == consume(s, p)
  IN IF ~data THEN Out(ycc_cleanup(s, tk), Done(tk, RetBool(FALSE)))
     ELSE IF line.k \in {"bad", "err"}
          THEN Out(ycc_cleanup(s1, tk), Done(tk, RetBool(FALSE)))
     ELSE Out([s1 EXCEPT !.request_id[p] = 1,
                         !.sessions = Put(@, tk.name, p),
                         !.proc[p].init = Handshake(line, 1)],
              Done(tk, RetBool(TRUE)))

ycc_call_tool(s, tk) ==
  IF tk.name \notin DOMAIN s.sessions
  THEN Out(s, Done(tk, RetToolResult("not connected", TRUE)))
  ELSE LET r == send_request(s, tk, s.sessions[tk.name], "tools/call")
       IN IF r.kind = "exc" THEN Out(r.s, Done(r.tk, RetToolResult(r.msg, TRUE)))
          ELSE Out(r.s, r.tk)

\* A faulty tail of remove_server, which C10 must tell from the code's: it
\* returns True whether or not there was a config.
ycc_remove_server_rest_true(s, tk) ==
  LET s1 == ycc_cleanup(s, tk)
  IN Out([s1 EXCEPT !.servers = Del(@, tk.name)], Done(tk, RetBool(TRUE)))

\* remove_server behind the Session: the tracked process is terminated and
\* forgotten unless terminate raises, the config is deleted, and the return
\* value says whether there was a config.
ycc_remove_server_rest(s, tk) ==
  LET s1 == ycc_cleanup(s, tk)
  IN IF tk.name \in DOMAIN s1.servers
     THEN Out([s1 EXCEPT !.servers = Del(@, tk.name)], Done(tk, RetBool(TRUE)))
     ELSE Out(s1, Done(tk, RetBool(FALSE)))

\* remove_server after close returned or raised: del sessions[name] follows
\* the close inside the try.
ycc_remove_server_closed(s, tk, o) ==
  IF o.kind = "exc" THEN ycc_remove_server_rest(s, tk)
  ELSE ycc_remove_server_rest([s EXCEPT !.sessions = Del(@, tk.name)], tk)

ycc_remove_server(s, tk) ==
  IF tk.name \notin DOMAIN s.sessions THEN ycc_remove_server_rest(s, tk)
  ELSE LET r == close(s, tk, s.sessions[tk.name])
       IN IF r.kind = "more" THEN Out(r.s, r.tk)
          ELSE ycc_remove_server_closed(r.s, r.tk, r)

\* close_all from the head of its for loop over list(sessions.keys()), a
\* snapshot: remove_server for each name, its return value dropped.
RECURSIVE ycc_close_all_loop(_, _)
ycc_close_all_loop(s, tk) ==
  IF tk.todo = {} THEN {Out(s, Done(tk, NoRet))}
  ELSE UNION {
    LET tk1 == [tk EXCEPT !.todo = @ \ {n}, !.name = n]
        o == ycc_remove_server(s, tk1)
    IN IF o.tk.pc = "done" THEN ycc_close_all_loop(o.s, tk1) ELSE {o}
    : n \in tk.todo }

\* close_all when the close() inside its remove_server returned or raised.
ycc_close_all_closed(s, tk, o) ==
  ycc_close_all_loop(ycc_remove_server_closed(s, tk, o).s, tk)

ycc_close_all(s, tk) ==
  ycc_close_all_loop(s, [tk EXCEPT !.todo = DOMAIN s.sessions])

\* list_tools from the head of its for loop.  With a name the loop runs over
\* a one-element list; without, over the live key view of sessions, whose
\* iterator raises RuntimeError when the dict changed size (n0 is the size it
\* started with, -1 for the list).  The view is visited in any order.
RECURSIVE ycc_list_tools_loop(_, _)
ycc_list_tools_loop(s, tk) ==
  IF tk.n0 >= 0 /\ Cardinality(DOMAIN s.sessions) # tk.n0
  THEN {Out(s, Done(tk, RetRaise("RuntimeError")))}
  ELSE IF tk.todo = {} THEN {Out(s, Done(tk, RetMap(tk.tools)))}
  ELSE UNION {
    LET tk1 == [tk EXCEPT !.todo = @ \ {n}, !.cur = n]
    IN IF n \notin DOMAIN s.sessions THEN ycc_list_tools_loop(s, tk1)
       ELSE LET r == send_request(s, tk1, s.sessions[n], "tools/list")
            IN IF r.kind = "exc"
               THEN ycc_list_tools_loop(r.s, [r.tk EXCEPT !.tools = Put(@, n, <<>>)])
               ELSE {Out(r.s, r.tk)}
    : n \in tk.todo }

ycc_list_tools(s, tk) ==
  IF tk.name # ""
  THEN ycc_list_tools_loop(s, [tk EXCEPT !.todo = {tk.name}, !.n0 = -1])
  ELSE ycc_list_tools_loop(s, [tk EXCEPT !.todo = DOMAIN s.sessions,
                                         !.n0 = Cardinality(DOMAIN s.sessions)])

\* A request of a ycc operation returned or raised.
ycc_resume(s, tk, o) ==
  IF tk.op = "list_tools"
  THEN ycc_list_tools_loop(s,
         [tk EXCEPT !.tools = Put(@, tk.cur,
            IF o.kind = "ret" THEN session_list_tools(tk.resp) ELSE <<>>)])
  ELSE IF o.kind = "ret"
       THEN LET r == ycc_session_call_tool(tk.resp)
            IN {Out(s, Done(tk, RetToolResult(r.content, r.isError)))}
       ELSE {Out(s, Done(tk, RetToolResult(o.msg, TRUE)))}

\* ------------------------------------------------------- the steps
CanStart(t) ==
  /\ Free(t)
  /\ nops < (IF serial THEN MaxOps ELSE MaxOpsConc)
  /\ serial => t = "t1"
Begin(op, n) == [Idle EXCEPT !.op = op, !.name = n]

\* Processes the running add_server calls are still to spawn.
Spawning == Cardinality({u \in Tasks : task[u].pc = "spawn"
                                       /\ task[u].cfg.command = "ok"})

AddServer(t, cfg) ==
  /\ CanStart(t)
  /\ cfg.command = "ok" => nprocs + Spawning < MaxProcs
  /\ LET tk == [Begin("add_server", cfg.name) EXCEPT !.cfg = cfg]
     IN Apply(t, IF impl = "yac" THEN yac_add_server(St, tk)
                 ELSE ycc_add_server(St, tk))

\* create_subprocess_exec returned or raised.
Spawned(t) ==
  /\ task[t].pc = "spawn"
  /\ Apply(t, IF impl = "yac" THEN yac_connect(St, task[t])
              ELSE ycc_connect_stdio_server(St, task[t]))

RemoveServer(t, n) ==
  /\ CanStart(t)
  /\ Apply(t, IF impl = "yac" THEN yac_remove_server(St, Begin("remove_server", n))
              ELSE ycc_remove_server(St, Begin("remove_server", n)))

CallTool(t, n) ==
  /\ CanStart(t)
  /\ n \in DOMAIN sessions => request_id[sessions[n]] < MaxId
  /\ Apply(t, IF impl = "yac" THEN yac_call_tool(St, Begin("call_tool", n))
              ELSE ycc_call_tool(St, Begin("call_tool", n)))

CloseAll(t) ==
  /\ CanStart(t)
  /\ \E o \in (IF impl = "yac" THEN yac_close_all(St, Begin("close_all", ""))
               ELSE ycc_close_all(St, Begin("close_all", ""))) :
       Apply(t, o)

ListTools(t, n) ==
  /\ CanStart(t)
  /\ impl = "ycc" => \A m \in DOMAIN sessions : request_id[sessions[m]] < MaxId
  /\ \E o \in (IF impl = "yac" THEN {yac_list_tools(St, Begin("list_tools", n))}
               ELSE ycc_list_tools(St, Begin("list_tools", n))) :
       Apply(t, o)

\* A read segment ran: what the operation does with its end.
AfterRead(t, o) ==
  IF o.kind = "more" THEN {Out(o.s, o.tk)}
  ELSE IF impl = "yac" THEN {yac_resume(o.s, o.tk, o)}
  ELSE ycc_resume(o.s, o.tk, o)

ReadSegment(t, data, line) ==
  IF impl = "yac" THEN AfterRead(t, yac_send_request(St, task[t], data, line))
  ELSE IF task[t].op = "add_server" THEN {ycc_handshake(St, task[t], data, line)}
  ELSE AfterRead(t, ycc_send_request(St, task[t], data, line))

\* What a child may write: a notification, a line that is no JSON, or a
\* response (result, error or neither) to a request it has received, however
\* late and however often.
PeerLines(p) ==
  {Notif, Bad}
  \cup {Line(k, proc[p].stdin[i].id, NoRes) :
          k \in {"err", "nil"}, i \in 1..Len(proc[p].stdin)}
  \cup {Line("res", proc[p].stdin[i].id, r) :
          r \in Results, i \in 1..Len(proc[p].stdin)}

\* readline or read(8192) returned bytes: the next line the child wrote (a
\* child that exited may have left lines in the pipe).
Recv(t, line) ==
  /\ task[t].pc \in {"read", "chunk"}
  /\ proc[task[t].p].emitted < MaxEmit
  /\ line \in PeerLines(task[t].p)
  /\ \E o \in ReadSegment(t, TRUE, line) : Apply(t, o)

\* The read returned no bytes: wait_for elapsed on a running child (5 s on
\* yac's readline, 1 s on read(8192); ycc's readline calls have no timeout),
\* or the pipe of a child that exited is at end of file.
ReadEmpty(t) ==
  /\ task[t].pc \in {"read", "chunk"}
  /\ proc[task[t].p].st = "running" => impl = "yac" \/ task[t].pc = "chunk"
  /\ \E o \in ReadSegment(t, FALSE, NoLine) : Apply(t, o)

\* Session.close resumes: process.wait() returned.
Closed(t, s) ==
  LET tk == task[t]
      o == Return([s EXCEPT !.proc[tk.p].closed = TRUE], tk, tk.resp)
  IN IF tk.op = "close_all"
     THEN IF impl = "yac" THEN yac_close_all_loop(o.s, tk)
          ELSE ycc_close_all_closed(o.s, tk, o)
     ELSE IF impl = "yac" THEN {yac_remove_server_closed(o.s, tk, o)}
     ELSE {ycc_remove_server_closed(o.s, tk, o)}

\* The waiters of wait() are woken when the transport is closed.
CloseWake(t) ==
  /\ task[t].pc \in {"wait", "wait2"}
  /\ proc[task[t].p].st = "reaped"
  /\ \E o \in Closed(t, St) : Apply(t, o)

\* The same timeout, SIGKILL being sent whatever became of the child.
CloseTimeout_always(t) ==
  /\ task[t].pc = "wait"
  /\ LET p == task[t].p
     IN /\ proc[p].st \in {"running", "exited"}
        /\ Apply(t, Out([St EXCEPT !.proc[p].kill = TRUE, !.proc[p].st = "exited"],
                        [task[t] EXCEPT !.pc = "wait2"]))

\* The 5 s grace period of close elapsed: kill(), then wait() again.
CloseTimeout(t) ==
  /\ task[t].pc = "wait"
  /\ LET p == task[t].p
     IN \/ /\ proc[p].st = "running"
           /\ Apply(t, Out([St EXCEPT !.proc[p].kill = TRUE, !.proc[p].st = "exited"],
                           [task[t] EXCEPT !.pc = "wait2"]))
        \/ /\ proc[p].st = "exited"
           /\ \E o \in Closed(t, St) : Apply(t, o)

\* The caller's wait_for(add_server(...), 30) elapsed: the task is cancelled
\* where it is suspended.  CancelledError is no Exception, so no except
\* clause of add_server or connect runs.
Deadline(t) ==
  /\ task[t].op = "add_server"
  /\ task[t].pc \in {"spawn", "read", "chunk"}
  /\ task' = [task EXCEPT ![t] = Done(@, RetRaise("TimeoutError"))]
  /\ UNCHANGED <<impl, serial, servers, sessions, processes, tools_cache,
                 proc, request_id, nprocs, nops, streamvars, regvars>>

\* ------------------------------------------------- the environment
\* The child exits, on its own or on SIGTERM.
ProcExit(p) ==
  /\ proc[p].st = "running"
  /\ proc' = [proc EXCEPT ![p].st = "exited"]
  /\ UNCHANGED <<impl, serial, servers, sessions, processes, tools_cache,
                 request_id, nprocs, nops, task, streamvars, regvars>>

\* asyncio saw the exit and the pipes close: the transport is closed.
ProcReap(p) ==
  /\ proc[p].st = "exited"
  /\ proc' = [proc EXCEPT ![p].st = "reaped"]
  /\ UNCHANGED <<impl, serial, servers, sessions, processes, tools_cache,
                 request_id, nprocs, nops, task, streamvars, regvars>>

Next ==
  \/ \E t \in Tasks : \E cfg \in Configs : AddServer(t, cfg)
  \/ \E t \in Tasks : Spawned(t)
  \/ \E t \in Tasks : \E n \in Names : RemoveServer(t, n)
  \/ \E t \in Tasks : \E n \in Names : CallTool(t, n)
  \/ \E t \in Tasks : \E n \in Names \cup {""} : ListTools(t, n)
  \/ \E t \in Tasks : CloseAll(t)
  \/ \E t \in Tasks : \E line \in Lines : Recv(t, line)
  \/ \E t \in Tasks : ReadEmpty(t)
  \/ \E t \in Tasks : CloseWake(t)
  \/ \E t \in Tasks : CloseTimeout(t)
  \/ \E t \in Tasks : Deadline(t)
  \/ \E p \in Procs : ProcExit(p)
  \/ \E p \in Procs : ProcReap(p)

Spec == Init /\ [][Next]_vars

\* One package, one caller discipline.
InitSerial == Init /\ serial = TRUE
InitYacSerial == Init /\ impl = "yac" /\ serial = TRUE
InitYacConc == Init /\ impl = "yac" /\ serial = FALSE
InitYccSerial == Init /\ impl = "ycc" /\ serial = TRUE
InitYccConc == Init /\ impl = "ycc" /\ serial = FALSE
SpecSerial == InitSerial /\ [][Next]_vars
SpecYacSerial == InitYacSerial /\ [][Next]_vars
SpecYacConc == InitYacConc /\ [][Next]_vars
SpecYccSerial == InitYccSerial /\ [][Next]_vars
SpecYccConc == InitYccConc /\ [][Next]_vars
InitConc == Init /\ serial = FALSE
SpecConc == InitConc /\ [][Next]_vars

\* Both names connected: the state add_server leaves behind when it has
\* returned True for s1 and then for s2 (yac: the handshake and the catalog
\* fetch, ids 2 and 3, the catalog cached; ycc: the handshake, id 1, the
\* config and the process tracked), the callers overlapping from here on.
InitConnected ==
  /\ impl \in {"yac", "ycc"}
  /\ serial = FALSE
  /\ servers = IF impl = "yac" THEN EmptyDict
               ELSE [n \in Names |-> Cfg(n, "stdio", "ok")]
  /\ sessions = Put(Put(EmptyDict, "s1", 1), "s2", 2)
  /\ processes = IF impl = "yac" THEN EmptyDict ELSE sessions
  /\ tools_cache = IF impl = "yac" THEN [n \in Names |-> RA.tools] ELSE EmptyDict
  /\ proc = [p \in Procs |->
              [NoProc EXCEPT
                 !.st = "running", !.init = "response", !.late = 0,
                 !.stdin = IF impl = "yac"
                           THEN <<[id |-> 2, method |-> "initialize"],
                                  [id |-> 3, method |-> "tools/list"]>>
                           ELSE <<[id |-> 1, method |-> "initialize"]>>,
                 !.emitted = IF impl = "yac" THEN 2 ELSE 1]]
  /\ request_id = [p \in Procs |-> IF impl = "yac" THEN 3 ELSE 1]
  /\ nprocs = MaxProcs
  /\ nops = 0
  /\ task = [t \in Tasks |-> Idle]
  /\ pipe = NoPipe
  /\ rd = NoRd
  /\ handlers = <<>>
  /\ hres = NoHres
  /\ net = NoNet
  /\ made = NoMade
  /\ chain = NoChain
InitYacConnected == InitConnected /\ impl = "yac"
InitYccConnected == InitConnected /\ impl = "ycc"

\* Callers that only disconnect.
NextClosing ==
  \/ \E t \in Tasks : \E n \in Names : RemoveServer(t, n)
  \/ \E t \in Tasks : CloseAll(t)
  \/ \E t \in Tasks : CloseWake(t)
  \/ \E t \in Tasks : CloseTimeout(t)
  \/ \E p \in Procs : ProcExit(p)
  \/ \E p \in Procs : ProcReap(p)
SpecYacClosing == InitYacConnected /\ [][NextClosing]_vars
SpecYccClosing == InitYccConnected /\ [][NextClosing]_vars

\* The event loop runs a timer that is due: a read that has been waiting with
\* a timeout is resumed when the timeout elapses, and a read at end of file
\* returns.  Nothing obliges a child to write or to exit.
Fairness == \A t \in Tasks : WF_vars(ReadEmpty(t))
FairYacSerial == SpecYacSerial /\ Fairness
FairYccSerial == SpecYccSerial /\ Fairness


\* ------------------------------------- Stream: one response, block by block
\* The stdout pipe of one child in blocks of bytes, to follow what readline
\* and read(8192) return when a response comes in pieces.  The three sizes
\* are the code's, scaled down to blocks.
ReadMax   == 2       \* read(8192): the blocks one read returns at most
LineLimit == 3       \* the 64 KiB limit of StreamReader.readline, in blocks
StreamCap == 4       \* the 1 MiB of the reassembly loop, in blocks

\* Block i of message m; nl: the block ends with a newline.
B(m, i, nl) == [m |-> m, i |-> i, nl |-> nl]
Shape(m, nls) == [i \in 1..Len(nls) |-> B(m, i, nls[i])]

\* How a message lies in the pipe: on one line in one block or in several
\* (the last, longer than the readline limit), or pretty-printed on several
\* lines (the last, longer than the reassembly cap).
Shapes == {<<TRUE>>, <<FALSE, TRUE>>, <<TRUE, TRUE>>, <<TRUE, FALSE, TRUE>>,
           <<FALSE, FALSE, FALSE, TRUE>>,
           <<TRUE, FALSE, FALSE, FALSE, FALSE, TRUE>>}

\* n messages of kind k, each on a line of its own in one block, then tail.
Skips(n, k, tail) ==
  [kinds |-> [i \in 1..n |-> k] \o tail,
   blocks |-> [i \in 1..(n + Len(tail)) |-> B(i, 1, TRUE)]]

\* What a child writes: one message, or two, or up to max_attempts + 1 whole
\* lines.  kinds[m] is "res" (the response to the request), "notif" (a
\* notification), "other" (a response with another id) or "junk" (no JSON).
Scripts ==
  {Skips(n, k, tail) : n \in (max_attempts - 2)..(max_attempts + 1),
                       k \in {"notif", "other"}, tail \in {<<>>, <<"res">>}} \cup
  {[kinds |-> <<k>>, blocks |-> Shape(1, sh)] :
      k \in {"res", "notif", "junk"}, sh \in Shapes}
  \cup {[kinds |-> ks, blocks |-> Shape(1, sh) \o Shape(2, <<TRUE>>)] :
      ks \in {<<"res", "notif">>, <<"notif", "res">>, <<"notif", "junk">>,
              <<"junk", "notif">>},
      sh \in Shapes}

\* The blocks of message m, as the child wrote them.
Message(script, m) ==
  LET Of(b) == b.m = m IN SelectSeq(script.blocks, Of)

\* json.loads of the bytes bs (stripped): the message they are, or 0 for
\* JSONDecodeError.  Bytes parse when they are one whole JSON message.
parse(script, bs) ==
  IF bs = <<>> THEN 0
  ELSE LET m == bs[1].m
       IN IF script.kinds[m] # "junk" /\ bs = Message(script, m) THEN m ELSE 0

\* StreamReader.readline on pipe pp: the bytes up to the first newline
\* ("line"); at end of file what is left, possibly nothing; ValueError
\* ("limit") when the line is longer than the limit, the bytes looked at
\* being dropped; otherwise it waits ("wait").
readline(pp) ==
  LET nl == {j \in 1..Len(pp.buf) : pp.buf[j].nl}
      j == IF nl = {} THEN 0 ELSE CHOOSE x \in nl : \A y \in nl : x <= y
  IN IF j # 0
     THEN [k |-> IF j > LineLimit THEN "limit" ELSE "line",
           data |-> SubSeq(pp.buf, 1, j),
           pipe |-> [pp EXCEPT !.buf = SubSeq(@, j + 1, Len(@))]]
     ELSE IF Len(pp.buf) > LineLimit
     THEN [k |-> "limit", data |-> pp.buf, pipe |-> [pp EXCEPT !.buf = <<>>]]
     ELSE IF pp.eof
     THEN [k |-> "line", data |-> pp.buf, pipe |-> [pp EXCEPT !.buf = <<>>]]
     ELSE [k |-> "wait", data |-> <<>>, pipe |-> pp]

\* StreamReader.read(8192): what is in the buffer, ReadMax blocks at most;
\* nothing at end of file; otherwise it waits.
read(pp) ==
  LET n == IF Len(pp.buf) < ReadMax THEN Len(pp.buf) ELSE ReadMax
  IN IF n > 0
     THEN [k |-> "data", data |-> SubSeq(pp.buf, 1, n),
           pipe |-> [pp EXCEPT !.buf = SubSeq(@, n + 1, Len(@))]]
     ELSE IF pp.eof THEN [k |-> "data", data |-> <<>>, pipe |-> pp]
     ELSE [k |-> "wait", data |-> <<>>, pipe |-> pp]

\* The reader ends: message m is returned, or msg is raised.
RdReturn(r, m) == [r EXCEPT !.pc = "done", !.k = "ret", !.m = m]
RdRaise(r, msg) == [r EXCEPT !.pc = "done", !.k = "exc", !.msg = msg]
RdOut(r, pp) == [rd |-> r, pipe |-> pp]

\* The same loop, giving up one line early.
yac_rd_next_early(r) ==
  IF r.att + 2 >= max_attempts
  THEN RdRaise(r, "Could not find matching response")
  ELSE [r EXCEPT !.pc = "line", !.att = @ + 1, !.line = <<>>, !.add = <<>>]

\* yac: the end of one iteration of the for loop, and its else clause.
yac_rd_next(r) ==
  IF r.att + 1 >= max_attempts
  THEN RdRaise(r, "Could not find matching response")
  ELSE [r EXCEPT !.pc = "line", !.att = @ + 1, !.line = <<>>, !.add = <<>>]

\* yac: response is message m; the id test, else the next iteration.
yac_rd_response(script, r, m) ==
  IF script.kinds[m] = "res" THEN RdReturn(r, m)
  ELSE yac_rd_next([r EXCEPT !.bound = m])

\* yac: the readline of one iteration returned, raised or timed out (5 s).
yac_rd_line(script, r, pp) ==
  LET x == readline(pp)
      m == parse(script, x.data)
  IN IF x.k = "limit" THEN RdOut(RdRaise(r, "ValueError"), x.pipe)
     ELSE IF x.k = "wait" \/ x.data = <<>>
     THEN RdOut(RdRaise(r, "No response from server"), x.pipe)
     ELSE IF m # 0
     THEN RdOut(yac_rd_response(script, [r EXCEPT !.line = x.data], m), x.pipe)
     ELSE RdOut([r EXCEPT !.pc = "chunk", !.line = x.data, !.add = <<>>], x.pipe)

\* The reassembly loop, both packages: one read(8192) returned data that
\* made the bytes parse (m # 0) or not; then the loop condition.
rd_more(r, data) ==
  LET r1 == [r EXCEPT !.add = @ \o data]
  IN IF Len(r1.add) < StreamCap THEN r1
     ELSE RdRaise(r1, "Response too large or malformed")

\* yac: one read(8192) of the reassembly loop returned or timed out (1 s).
\* At end of file the loop is left by break, response being what an earlier
\* iteration bound it to, or unbound.
yac_rd_chunk(script, r, pp) ==
  LET x == read(pp)
      m == parse(script, r.line \o r.add \o x.data)
  IN IF x.k = "wait"
     THEN RdOut(RdRaise(r, "Response incomplete or server hung"), pp)
     ELSE IF x.data = <<>>
     THEN RdOut(IF r.bound # 0 THEN yac_rd_response(script, r, r.bound)
                ELSE RdRaise(r, "UnboundLocalError"), pp)
     ELSE IF m # 0
     THEN RdOut(yac_rd_response(script, [r EXCEPT !.add = @ \o x.data], m), x.pipe)
     ELSE RdOut(rd_more(r, x.data), x.pipe)

\* ycc: the readline returned or raised; it has no timeout.  What parses is
\* the response.
ycc_rd_line(script, r, pp) ==
  LET x == readline(pp)
      m == parse(script, x.data)
  IN IF x.k = "limit" THEN RdOut(RdRaise(r, "ValueError"), x.pipe)
     ELSE IF x.data = <<>>
     THEN RdOut(RdRaise(r, "No response from server"), x.pipe)
     ELSE IF m # 0 THEN RdOut(RdReturn([r EXCEPT !.line = x.data], m), x.pipe)
     ELSE RdOut([r EXCEPT !.pc = "chunk", !.line = x.data, !.add = <<>>], x.pipe)

\* ycc: one read(8192) of the reassembly loop; the exception of the loop's
\* else clause is wrapped.
ycc_rd_chunk(script, r, pp) ==
  LET x == read(pp)
      m == parse(script, r.line \o r.add \o x.data)
      c == rd_more(r, x.data)
  IN IF x.k = "wait"
     THEN RdOut(RdRaise(r, "Response incomplete or server hung"), pp)
     ELSE IF x.data = <<>> THEN RdOut(RdRaise(r, "UnboundLocalError"), pp)
     ELSE IF m # 0 THEN RdOut(RdReturn([r EXCEPT !.add = @ \o x.data], m), x.pipe)
     ELSE IF c.pc = "done"
     THEN RdOut(RdRaise(c, "Failed to read large response"), x.pipe)
     ELSE RdOut(c, x.pipe)

RdApply(o) ==
  /\ rd' = o.rd
  /\ pipe' = o.pipe
  /\ UNCHANGED <<impl, serial, regvars, mcpvars>>

\* The transport hands the next k blocks the child wrote to the reader's
\* buffer.
Deliver(k) ==
  /\ k \in 1..Len(pipe.pending)
  /\ pipe' = [pipe EXCEPT !.buf = @ \o SubSeq(pipe.pending, 1, k),
                          !.pending = SubSeq(@, k + 1, Len(@))]
  /\ UNCHANGED <<impl, serial, regvars, mcpvars, rd>>

\* The child exits; what it had not written yet is never written.
PeerEOF ==
  /\ rd.pc # "none"
  /\ ~pipe.eof
  /\ pipe' = [pipe EXCEPT !.eof = TRUE, !.pending = <<>>]
  /\ UNCHANGED <<impl, serial, regvars, mcpvars, rd>>

\* readline returns or raises.
ReadLine ==
  /\ rd.pc = "line"
  /\ readline(pipe).k # "wait"
  /\ RdApply(IF impl = "yac" THEN yac_rd_line(pipe.script, rd, pipe)
             ELSE ycc_rd_line(pipe.script, rd, pipe))

\* yac: the 5 s of wait_for(readline) elapse.
LineTimeout ==
  /\ rd.pc = "line"
  /\ readline(pipe).k = "wait"
  /\ impl = "yac"
  /\ RdApply(yac_rd_line(pipe.script, rd, pipe))

\* read(8192) returns.
ReadChunk ==
  /\ rd.pc = "chunk"
  /\ read(pipe).k # "wait"
  /\ RdApply(IF impl = "yac" THEN yac_rd_chunk(pipe.script, rd, pipe)
             ELSE ycc_rd_chunk(pipe.script, rd, pipe))

\* The 1 s of wait_for(read(8192)) elapses.
ChunkTimeout ==
  /\ rd.pc = "chunk"
  /\ read(pipe).k = "wait"
  /\ RdApply(IF impl = "yac" THEN yac_rd_chunk(pipe.script, rd, pipe)
             ELSE ycc_rd_chunk(pipe.script, rd, pipe))

NextStream ==
  \/ \E k \in 1..Len(pipe.pending) : Deliver(k)
  \/ PeerEOF
  \/ ReadLine
  \/ LineTimeout
  \/ ReadChunk
  \/ ChunkTimeout

\* The request has been written; the child is about to write script.
InitStream ==
  /\ serial = TRUE
  /\ servers = EmptyDict
  /\ sessions = EmptyDict
  /\ processes = EmptyDict
  /\ tools_cache = EmptyDict
  /\ proc = [p \in Procs |-> NoProc]
  /\ request_id = [p \in Procs |-> 0]
  /\ nprocs = 0
  /\ nops = 0
  /\ task = [t \in Tasks |-> Idle]
  /\ \E script \in Scripts :
       pipe = [script |-> script, pending |-> script.blocks, buf |-> <<>>,
               eof |-> FALSE]
  /\ rd = [NoRd EXCEPT !.pc = "line"]
  /\ handlers = <<>>
  /\ hres = NoHres
  /\ net = NoNet
  /\ made = NoMade
  /\ chain = NoChain
InitYacStream == InitStream /\ impl = "yac"
InitYccStream == InitStream /\ impl = "ycc"
SpecYacStream == InitYacStream /\ [][NextStream]_vars
\* ycc has no timeout on the readline.
NextYccStream ==
  \/ \E k \in 1..Len(pipe.pending) : Deliver(k)
  \/ PeerEOF
  \/ ReadLine
  \/ ReadChunk
  \/ ChunkTimeout
SpecYccStream == InitYccStream /\ [][NextYccStream]_vars

\* ------------------------------------------- ErrorHandlerRegistry
MaxHandlers == 3     \* handlers in the registry

\* A handler, by what it does with the error at hand: can_handle returns
\* True or False or raises an Exception ("raise") or a BaseException that is
\* no Exception ("base"); handle returns a text, None or "", or raises.
Kinds == {[can |-> c, handle |-> h] :
            c \in {"true", "false"}, h \in {"text", "none", "empty", "raise", "base"}}
         \cup {[can |-> c, handle |-> "none"] : c \in {"raise", "base"}}

\* The built-in handlers: can_handle looks for phrases, handle returns a
\* text (FileNotFoundHandler: None when the arguments name no file).
Builtin == {[can |-> c, handle |-> h] : c \in {"true", "false"}, h \in {"text", "none"}}

\* A body of the loop that also asks a handler whose can_handle said False.
try_handler_asks(h) ==
  IF h.can \in {"raise", "base"}
  THEN [k |-> IF h.can = "base" THEN "exc" ELSE "next", asked |-> FALSE]
  ELSE IF h.handle = "text" THEN [k |-> "ret", asked |-> TRUE]
  ELSE IF h.handle = "base" THEN [k |-> "exc", asked |-> TRUE]
  ELSE [k |-> "next", asked |-> TRUE]

\* A body of the loop without the try: an Exception of the handler leaves
\* handle_error.
try_handler_raises(h) ==
  IF h.can \in {"raise", "base"} THEN [k |-> "exc", asked |-> FALSE]
  ELSE IF h.can = "false" THEN [k |-> "next", asked |-> FALSE]
  ELSE IF h.handle = "text" THEN [k |-> "ret", asked |-> TRUE]
  ELSE IF h.handle \in {"raise", "base"} THEN [k |-> "exc", asked |-> TRUE]
  ELSE [k |-> "next", asked |-> TRUE]

\* The body of the loop of handle_error for handler h: return its result
\* ("ret"), go on to the next handler ("next"), or let a BaseException
\* through ("exc"); asked: handle was called.
try_handler(h) ==
  IF h.can = "base" THEN [k |-> "exc", asked |-> FALSE]
  ELSE IF h.can # "true" THEN [k |-> "next", asked |-> FALSE]
  ELSE IF h.handle = "text" THEN [k |-> "ret", asked |-> TRUE]
  ELSE IF h.handle = "base" THEN [k |-> "exc", asked |-> TRUE]
  ELSE [k |-> "next", asked |-> TRUE]

\* handle_error from handler i on; r.tried and r.asked are the handlers whose
\* can_handle and whose handle were called.  by: the handler whose result is
\* returned, 0 for the "Unhandled error" text.
\* A handle_error that returns None when no handler had a result.
fallback_none(r) ==
  [r EXCEPT !.pc = "done", !.k = "ret", !.by = 0, !.msg = ""]

\* The return after the loop: the fallback text.
fallback(r) ==
  [r EXCEPT !.pc = "done", !.k = "ret", !.by = 0, !.msg = "Unhandled error"]

RECURSIVE handle_error_loop(_, _, _)
handle_error_loop(hs, i, r) ==
  IF i > Len(hs) THEN fallback(r)
  ELSE LET o == try_handler(hs[i])
           r1 == [r EXCEPT !.tried = @ \cup {i},
                           !.asked = IF o.asked THEN @ \cup {i} ELSE @]
       IN IF o.k = "next" THEN handle_error_loop(hs, i + 1, r1)
          ELSE [r1 EXCEPT !.pc = "done", !.k = o.k, !.by = i,
                          !.msg = IF o.k = "ret" THEN "text" ELSE ""]

handle_error(hs) == handle_error_loop(hs, 1, [NoHres EXCEPT !.hs = hs])

\* An add_handler that appends.
AddHandler_append(h) ==
  /\ Len(handlers) < MaxHandlers
  /\ handlers' = handlers \o <<h>>
  /\ UNCHANGED <<impl, serial, mcpvars, streamvars, hres, net, made, chain>>

\* add_handler: a custom handler goes to the front.
AddHandler(h) ==
  /\ Len(handlers) < MaxHandlers
  /\ handlers' = <<h>> \o handlers
  /\ UNCHANGED <<impl, serial, mcpvars, streamvars, hres, net, made, chain>>

HandleError ==
  /\ hres' = handle_error(handlers)
  /\ UNCHANGED <<impl, serial, mcpvars, streamvars, handlers, net, made, chain>>

NextRegistry ==
  \/ \E h \in Kinds : AddHandler(h)
  \/ HandleError

InitRegistry ==
  /\ impl = "yac"
  /\ serial = TRUE
  /\ servers = EmptyDict
  /\ sessions = EmptyDict
  /\ processes = EmptyDict
  /\ tools_cache = EmptyDict
  /\ proc = [p \in Procs |-> NoProc]
  /\ request_id = [p \in Procs |-> 0]
  /\ nprocs = 0
  /\ nops = 0
  /\ task = [t \in Tasks |-> Idle]
  /\ pipe = NoPipe
  /\ rd = NoRd
  /\ \E n \in 0..(MaxHandlers - 1) : handlers \in [1..n -> Builtin]
  /\ hres = NoHres
  /\ net = NoNet
  /\ made = NoMade
  /\ chain = NoChain
SpecRegistry == InitRegistry /\ [][NextRegistry]_vars

\* ------------------------------------------- the retry after a network error
MaxRetries == 3      \* largest max_retries of a NetworkErrorHandler
RetryDelays == {1, 2} \* the retry_delay of a NetworkErrorHandler, in seconds
\* What one ainvoke of the tool does: it returns a result or raises.
ToolOutcomes == {[ok |-> TRUE, v |-> "r1"], [ok |-> TRUE, v |-> "r2"],
                 [ok |-> FALSE, v |-> "e1"], [ok |-> FALSE, v |-> "e2"]}

NetReturn(r, msg) == [r EXCEPT !.pc = "done", !.msg = msg]

\* yac NetworkErrorHandler.handle: the head of the for loop, and the return
\* after it.
yac_net_loop(r) ==
  IF r.attempt >= r.max_retries THEN NetReturn(r, "Network error occurred")
  ELSE [r EXCEPT !.pc = "sleep"]

\* The same with a sleep of retry_delay before every attempt.
yac_net_sleep_flat(r) ==
  LET r1 == [r EXCEPT !.slept = @ + r.retry_delay]
  IN IF r.present THEN [r1 EXCEPT !.pc = "invoke"]
     ELSE yac_net_loop([r1 EXCEPT !.attempt = @ + 1])

\* yac: asyncio.sleep returned; the tool is looked up in the catalog.
yac_net_sleep(r) ==
  LET r1 == [r EXCEPT !.slept = @ + r.retry_delay * (r.attempt + 1)]
  IN IF r.present THEN [r1 EXCEPT !.pc = "invoke"]
     ELSE yac_net_loop([r1 EXCEPT !.attempt = @ + 1])

\* yac: ainvoke returned or raised.
yac_net_invoke(r, o) ==
  LET r1 == [r EXCEPT !.n = @ + 1]
  IN IF o.ok THEN NetReturn([r1 EXCEPT !.res = o.v], "Network retry successful")
     ELSE IF r.attempt = r.max_retries - 1
     THEN NetReturn([r1 EXCEPT !.err = o.v], "Network error persisted")
     ELSE yac_net_loop([r1 EXCEPT !.err = o.v, !.attempt = @ + 1])

\* ycc _handle_network_error: sleep(1), then one ainvoke; None unless it
\* returned.
ycc_net_sleep(r) ==
  LET r1 == [r EXCEPT !.slept = @ + 1]
  IN IF r.present THEN [r1 EXCEPT !.pc = "invoke"] ELSE NetReturn(r1, "None")
ycc_net_invoke(r, o) ==
  LET r1 == [r EXCEPT !.n = @ + 1]
  IN IF o.ok THEN NetReturn([r1 EXCEPT !.res = o.v], "retry_result")
     ELSE NetReturn([r1 EXCEPT !.err = o.v], "None")

NetApply(r) ==
  /\ net' = r
  /\ UNCHANGED <<impl, serial, mcpvars, streamvars, handlers, hres, made, chain>>

\* The handler is asked to handle a network error.
NetStart ==
  /\ net.pc = "start"
  /\ NetApply(IF impl = "yac" THEN yac_net_loop(net) ELSE [net EXCEPT !.pc = "sleep"])
NetSleep ==
  /\ net.pc = "sleep"
  /\ NetApply(IF impl = "yac" THEN yac_net_sleep(net) ELSE ycc_net_sleep(net))
NetInvoke(o) ==
  /\ net.pc = "invoke"
  /\ NetApply(IF impl = "yac" THEN yac_net_invoke(net, o) ELSE ycc_net_invoke(net, o))

NextNetwork ==
  \/ NetStart
  \/ NetSleep
  \/ \E o \in ToolOutcomes : NetInvoke(o)

\* A handler with some max_retries (yac), a catalog that holds the failing
\* tool or not.
InitNetwork ==
  /\ impl \in {"yac", "ycc"}
  /\ serial = TRUE
  /\ servers = EmptyDict
  /\ sessions = EmptyDict
  /\ processes = EmptyDict
  /\ tools_cache = EmptyDict
  /\ proc = [p \in Procs |-> NoProc]
  /\ request_id = [p \in Procs |-> 0]
  /\ nprocs = 0
  /\ nops = 0
  /\ task = [t \in Tasks |-> Idle]
  /\ pipe = NoPipe
  /\ rd = NoRd
  /\ handlers = <<>>
  /\ hres = NoHres
  /\ made = NoMade
  /\ chain = NoChain
  /\ \E m \in 0..MaxRetries, d \in RetryDelays, b \in BOOLEAN :
       /\ impl = "ycc" => m = 0 /\ d = 1
       /\ net = [NoNet EXCEPT !.pc = "start", !.max_retries = m,
                              !.retry_delay = d, !.present = b]
SpecNetwork == InitNetwork /\ [][NextNetwork]_vars

\* ------------------------------------------- MCPServerConfig
\* The members of the enum MCPTransport, and what else a caller can pass as
\* transport: the dataclass checks no types.
Members == {"STDIO", "SSE", "HTTP"}
Transports == Members \cup {"'stdio'", "'invalid'"}
\* command and url: None, empty, or with content.
Fields == {"None", "empty", "full"}
\* Python's not x.
not(x) == x \in {"None", "empty"}

\* __post_init__: the two tests, in order.
post_init(c) ==
  IF c.transport = "STDIO" /\ not(c.command) THEN [c EXCEPT !.pc = "done", !.k = "ValueError"]
  ELSE IF c.transport \in {"SSE", "HTTP"} /\ not(c.url)
  THEN [c EXCEPT !.pc = "done", !.k = "ValueError"]
  ELSE [c EXCEPT !.pc = "done", !.k = "ok"]

\* MCPServerConfig(name, transport, command, url) returns or raises.
Construct ==
  /\ made.pc = "new"
  /\ made' = post_init(made)
  /\ UNCHANGED <<impl, serial, mcpvars, streamvars, handlers, hres, net, chain>>

NextConfig == Construct

InitConfig ==
  /\ impl = "yac"
  /\ serial = TRUE
  /\ servers = EmptyDict
  /\ sessions = EmptyDict
  /\ processes = EmptyDict
  /\ tools_cache = EmptyDict
  /\ proc = [p \in Procs |-> NoProc]
  /\ request_id = [p \in Procs |-> 0]
  /\ nprocs = 0
  /\ nops = 0
  /\ task = [t \in Tasks |-> Idle]
  /\ pipe = NoPipe
  /\ rd = NoRd
  /\ handlers = <<>>
  /\ hres = NoHres
  /\ net = NoNet
  /\ \E n \in Names, tr \in Transports, c \in Fields, u \in Fields :
       made = [pc |-> "new", name |-> n, transport |-> tr, command |-> c,
               url |-> u, k |-> ""]
  /\ chain = NoChain
SpecConfig == InitConfig /\ [][NextConfig]_vars

\* ------------------------------------------- the built-in handlers
\* The registry as __init__ builds it.
Builtins == <<"FileNotFoundHandler", "PermissionErrorHandler",
              "NetworkErrorHandler", "DirectoryNotFoundHandler",
              "ProcessErrorHandler">>

\* The phrases can_handle looks for in the lower-cased text of the error.
phrases ==
  [FileNotFoundHandler |->
     {"file not found", "no such file", "does not exist", "cannot find"},
   PermissionErrorHandler |->
     {"permission denied", "access denied", "not permitted",
      "insufficient privileges"},
   NetworkErrorHandler |->
     {"connection", "timeout", "network", "unreachable", "dns", "socket"},
   DirectoryNotFoundHandler |->
     {"directory not found", "no such directory", "path does not exist"},
   ProcessErrorHandler |->
     {"command not found", "no such command", "executable not found",
      "process failed", "exit code"}]
AllPhrases == UNION {phrases[h] : h \in DOMAIN phrases}

\* An error, by the phrases its lower-cased text contains.  A text that
\* contains "path does not exist" contains "does not exist"; no other phrase
\* lies within another.
Text(ps) == ps \cup (IF "path does not exist" \in ps THEN {"does not exist"} ELSE {})
Errors == {Text({p, q}) : p, q \in AllPhrases} \cup {{}}

\* The arguments of the failing call: a dict with one key, a str, or None.
Args == {"path", "file_path", "directory", "command", "str", "None"}
ToolNames == {"read_file", "write_file"}

can_handle(h, c) == phrases[h] \cap c.err # {}

\* handle of the four handlers that only advise: the text returned, named by
\* how it begins, or "None".
handle(h, c) ==
  IF h = "FileNotFoundHandler"
  THEN IF c.args \in {"path", "file_path", "str"} THEN "File not found" ELSE "None"
  ELSE IF h = "PermissionErrorHandler"
  THEN IF c.tool_name = "write_file" THEN "Permission denied, writable"
       ELSE "Permission denied"
  ELSE IF h = "DirectoryNotFoundHandler"
  THEN IF c.args \in {"path", "directory", "str"}
       THEN "Directory not found, check parent" ELSE "Directory not found"
  ELSE IF "command not found" \in c.err THEN "Command not found"
  ELSE IF "exit code" \in c.err THEN "Command executed but failed"
  ELSE "Process execution error"

ChainReturn(c, h, msg) == [c EXCEPT !.pc = "done", !.by = h, !.msg = msg]

\* handle(), whatever the handler, set off by the retry of the tool.
Classify_retry ==
  /\ chain.pc = "can"
  /\ LET h == IF chain.i <= Len(Builtins) THEN Builtins[chain.i] ELSE ""
     IN IF h = ""
        THEN chain' = ChainReturn(chain, "", "Unhandled error") /\ net' = net
        ELSE IF ~can_handle(h, chain)
        THEN chain' = [chain EXCEPT !.i = @ + 1] /\ net' = net
        ELSE /\ chain' = [chain EXCEPT !.pc = "net"]
             /\ net' = [NoNet EXCEPT !.pc = "start", !.max_retries = 2,
                                     !.retry_delay = 1,
                                     !.present = chain.present]
  /\ UNCHANGED <<impl, serial, mcpvars, streamvars, handlers, hres, made>>

\* One turn of the loop of handle_error: can_handle of handler i and, when it
\* says True, its handle; the NetworkErrorHandler's handle is the retry (net).
\* Behind the last handler the fallback text is returned.
Classify ==
  /\ chain.pc = "can"
  /\ LET h == IF chain.i <= Len(Builtins) THEN Builtins[chain.i] ELSE ""
     IN IF h = ""
        THEN chain' = ChainReturn(chain, "", "Unhandled error") /\ net' = net
        ELSE IF ~can_handle(h, chain)
        THEN chain' = [chain EXCEPT !.i = @ + 1] /\ net' = net
        ELSE IF h = "NetworkErrorHandler"
        THEN /\ chain' = [chain EXCEPT !.pc = "net"]
             /\ net' = [NoNet EXCEPT !.pc = "start", !.max_retries = 2,
                                     !.retry_delay = 1,
                                     !.present = chain.present]
        ELSE IF handle(h, chain) = "None"
        THEN chain' = [chain EXCEPT !.i = @ + 1] /\ net' = net
        ELSE chain' = ChainReturn(chain, h, handle(h, chain)) /\ net' = net
  /\ UNCHANGED <<impl, serial, mcpvars, streamvars, handlers, hres, made>>

\* The retry returned its text, which handle_error returns.
Retried ==
  /\ chain.pc = "net"
  /\ net.pc = "done"
  /\ chain' = ChainReturn(chain, Builtins[chain.i], net.msg)
  /\ UNCHANGED <<impl, serial, mcpvars, streamvars, handlers, hres, net, made>>

NextChain ==
  \/ Classify
  \/ NetStart
  \/ NetSleep
  \/ \E o \in ToolOutcomes : NetInvoke(o)
  \/ Retried

\* handle_error(error, tool_name, args, tools) is called.
InitChain ==
  /\ impl = "yac"
  /\ serial = TRUE
  /\ servers = EmptyDict
  /\ sessions = EmptyDict
  /\ processes = EmptyDict
  /\ tools_cache = EmptyDict
  /\ proc = [p \in Procs |-> NoProc]
  /\ request_id = [p \in Procs |-> 0]
  /\ nprocs = 0
  /\ nops = 0
  /\ task = [t \in Tasks |-> Idle]
  /\ pipe = NoPipe
  /\ rd = NoRd
  /\ handlers = <<>>
  /\ hres = NoHres
  /\ net = NoNet
  /\ made = NoMade
  /\ \E e \in Errors, a \in Args, n \in ToolNames, b \in BOOLEAN :
       chain = [NoChain EXCEPT !.pc = "can", !.err = e, !.args = a,
                               !.tool_name = n, !.present = b, !.i = 1]
SpecChain == InitChain /\ [][NextChain]_vars

\* ------------------------------------------- yac get_all_tools
MaxCatalog == 2      \* tools in the catalog of one server
\* The descriptors a server can list, by the name of the tool.
Descriptors == {"read_file", "write_file"}
Catalogs == UNION {[1..n -> Descriptors] : n \in 0..MaxCatalog}

\* tool.copy() with the key server_name set.
with_server(tool, server_name) == [name |-> tool, server_name |-> server_name]

\* A get_all_tools that keeps one entry per tool name, the first.
RECURSIVE get_all_tools_merged(_)
get_all_tools_merged(cache) ==
  IF DOMAIN cache = {} THEN <<>>
  ELSE LET n == CHOOSE x \in DOMAIN cache : TRUE
           rest == get_all_tools_merged(Del(cache, n))
           New(e) == \A j \in 1..Len(rest) : rest[j].name # e.name
       IN rest \o SelectSeq([i \in 1..Len(cache[n]) |-> with_server(cache[n][i], n)],
                            New)

\* get_all_tools: the two loops, over the servers of the cache and over the
\* tools of each.
RECURSIVE get_all_tools(_)
get_all_tools(cache) ==
  IF DOMAIN cache = {} THEN <<>>
  ELSE LET n == CHOOSE x \in DOMAIN cache : TRUE
       IN get_all_tools(Del(cache, n))
            \o [i \in 1..Len(cache[n]) |-> with_server(cache[n][i], n)]

\* A caller calls get_all_tools, which returns at once.
GetAllTools(t) ==
  /\ Free(t)
  /\ task' = [task EXCEPT
                ![t] = Done(Begin("get_all_tools", ""),
                            RetMap(get_all_tools(tools_cache)))]
  /\ UNCHANGED <<impl, serial, servers, sessions, processes, tools_cache,
                 proc, request_id, nprocs, nops, streamvars, regvars>>

NextCatalog == \E t \in Tasks : GetAllTools(t)

\* A cache as the catalog fetches of add_server left it.
InitCatalog ==
  /\ impl = "yac"
  /\ serial = TRUE
  /\ servers = EmptyDict
  /\ sessions = EmptyDict
  /\ processes = EmptyDict
  /\ \E S \in SUBSET Names : tools_cache \in [S -> Catalogs]
  /\ proc = [p \in Procs |-> NoProc]
  /\ request_id = [p \in Procs |-> 0]
  /\ nprocs = 0
  /\ nops = 0
  /\ task = [t \in Tasks |-> Idle]
  /\ pipe = NoPipe
  /\ rd = NoRd
  /\ handlers = <<>>
  /\ hres = NoHres
  /\ net = NoNet
  /\ made = NoMade
  /\ chain = NoChain
SpecCatalog == InitCatalog /\ [][NextCatalog]_vars

\* ------------------------------------------------------- the claims
\* Requests written to p and still awaited by a caller.
Outstanding(p) == {t \in Tasks : task[t].pc \in {"read", "chunk"} /\ task[t].p = p}

\* This step starts the operation op of task t.
Starts(t, op) == Free(t) /\ nops' = nops + 1 /\ task'[t].op = op /\ task'[t] # Idle

\* This step is the one in which operation op of task t returns or raises.
Finishes(t, op) ==
  /\ task'[t].op = op
  /\ task'[t].pc = "done"
  /\ task[t].pc # "done" \/ nops' = nops + 1

\* The registry's maps.
maps == <<servers, sessions, processes, tools_cache>>

\* C1: what _send_request returns to its caller carries the id of the request
\* it sent; a notification is never returned as the response.
C1_ResponseMatchesRequest ==
  \A t \in Tasks : task[t].resp # NoLine =>
     /\ task[t].resp.k # "notif"
     /\ task[t].resp.id = task[t].rid

\* C2: at most one request is outstanding on a Session at any moment, also
\* with two callers on the same Session.
C2_OneOutstandingRequest ==
  \A p \in Procs : Cardinality(Outstanding(p)) <= 1

\* C3: call_tool on a name without a Session returns the error result "not
\* connected"; it raises nothing, writes to no child and changes no map.
C3_CallToolNotConnected ==
  [][\A t \in Tasks :
       Starts(t, "call_tool") /\ task'[t].name \notin DOMAIN sessions =>
         /\ task'[t].pc = "done"
         /\ task'[t].ret = RetToolResult("not connected", TRUE)
         /\ UNCHANGED <<maps, proc, request_id>>]_vars

\* C4: call_tool on a connected server never raises; when the Session's call
\* failed (no response was returned), the result is an error result that
\* carries the failure message.
C4_CallToolNeverRaises ==
  \A t \in Tasks :
    task[t].op = "call_tool" /\ task[t].pc = "done" /\ task[t].p # 0 =>
      /\ task[t].ret.k = "toolresult"
      /\ task[t].resp = NoLine => task[t].ret.b /\ task[t].ret.msg # ""

\* C5: add_server that returns False leaves the config stored under its name
\* and no Session under that name.
C5_FailedAddKeepsConfig ==
  \A t \in Tasks :
    task[t].op = "add_server" /\ task[t].pc = "done"
    /\ task[t].ret = RetBool(FALSE) =>
      /\ task[t].name \in DOMAIN servers
      /\ servers[task[t].name] = task[t].cfg
      /\ task[t].name \notin DOMAIN sessions

\* C6: the child spawned by an add_server that did not end in success has
\* been terminated (it was sent a signal or it is gone).
C6_FailedConnectReapsChild ==
  \A t \in Tasks :
    task[t].op = "add_server" /\ task[t].pc = "done" /\ task[t].p # 0
    /\ task[t].ret # RetBool(TRUE) =>
      proc[task[t].p].term \/ proc[task[t].p].st # "running"

\* Requests of one method written to process p.
Written(p, method) ==
  Cardinality({i \in 1..Len(proc[p].stdin) : proc[p].stdin[i].method = method})

\* C7 (yac): add_server returns True exactly when connect succeeded; it then
\* made one tools/list call, the Session is registered, and the cache entry
\* of the server is what that call returned, or the empty list when it failed.
C7_AddServerCachesTools ==
  \A t \in Tasks :
    LET tk == task[t] IN
    /\ tk.op = "add_server" /\ tk.pc = "done" /\ tk.ret = RetBool(TRUE) =>
         /\ tk.name \in DOMAIN sessions /\ sessions[tk.name] = tk.p
         /\ request_id[tk.p] = 3
         /\ Written(tk.p, "tools/list") <= 1
         /\ tk.resp # NoLine => Written(tk.p, "tools/list") = 1
         /\ tk.name \in DOMAIN tools_cache
         /\ tools_cache[tk.name] =
              IF tk.resp # NoLine THEN session_list_tools(tk.resp) ELSE <<>>
    /\ tk.op = "add_server" /\ tk.pc = "done" /\ tk.ret = RetBool(FALSE)
       /\ tk.p # 0 =>
         request_id[tk.p] = 2 /\ Written(tk.p, "tools/list") = 0

\* C7, its case: the tools/list call of a connected add_server failed, and
\* add_server returned True with the empty list cached.
C7_Witness ==
  \E t \in Tasks :
    /\ task[t].op = "add_server" /\ task[t].pc = "done"
    /\ task[t].ret = RetBool(TRUE) /\ task[t].resp = NoLine
    /\ Written(task[t].p, "tools/list") = 1
    /\ tools_cache[task[t].name] = <<>>

\* C8: list_tools is a cache read: it returns at once the cached catalog of
\* the named server (or the whole cache), writes to no child and changes no
\* map.
C8_ListToolsIsCacheRead ==
  [][\A t \in Tasks :
       Starts(t, "list_tools") =>
         /\ task'[t].pc = "done"
         /\ task'[t].ret =
              RetMap(IF task'[t].name = "" THEN tools_cache
                     ELSE IF task'[t].name \in DOMAIN tools_cache
                          THEN Put(EmptyDict, task'[t].name,
                                   tools_cache[task'[t].name])
                          ELSE EmptyDict)
         /\ UNCHANGED <<maps, proc, request_id>>]_vars

\* C9: once remove_server has returned, the name has no Session, no cache
\* entry and no config.
C9_RemoveServerEvicts ==
  \A t \in Tasks :
    task[t].op = "remove_server" /\ task[t].pc = "done" =>
      /\ task[t].name \notin DOMAIN sessions
      /\ task[t].name \notin DOMAIN tools_cache
      /\ task[t].name \notin DOMAIN servers

\* Something stored under n (a Session, a cache entry, a config) is gone
\* after this step.
Removed(n) ==
  \/ n \in DOMAIN sessions /\ n \notin DOMAIN sessions'
  \/ n \in DOMAIN tools_cache /\ n \notin DOMAIN tools_cache'
  \/ n \in DOMAIN servers /\ n \notin DOMAIN servers'

\* Nothing is stored under n in any map of the registry.
Unknown(n) ==
  /\ n \notin DOMAIN sessions
  /\ n \notin DOMAIN tools_cache
  /\ n \notin DOMAIN servers
  /\ n \notin DOMAIN processes

\* C10: remove_server returns True exactly when something stored under the
\* name was removed; for a name with nothing stored it returns False and
\* leaves every map as it was.
C10_RemoveServerReturn ==
  [][\A t \in Tasks :
       Finishes(t, "remove_server") =>
         /\ task'[t].ret = RetBool(Removed(task'[t].name))
         /\ Unknown(task'[t].name) =>
              task'[t].ret = RetBool(FALSE) /\ UNCHANGED <<maps, proc>>]_vars

\* C10, its case: a remove_server that removed a Session has returned True.
C10_Witness ==
  \E t \in Tasks :
    /\ task[t].op = "remove_server" /\ task[t].pc = "done"
    /\ task[t].ret = RetBool(TRUE)
    /\ task[t].p # 0
    /\ task[t].name \notin DOMAIN sessions

\* C11: close_all raises nothing and leaves no Session, no tracked process
\* and no cache entry, each time it is called (a second call in a row
\* included).
C11_CloseAllIdempotent ==
  \A t \in Tasks :
    task[t].op = "close_all" /\ task[t].pc = "done" =>
      /\ task[t].ret = NoRet
      /\ DOMAIN sessions = {}
      /\ DOMAIN processes = {}
      /\ DOMAIN tools_cache = {}

\* The Session of process p is Closed (close() was called on it: it returned,
\* or it sent the signal) or Failed.
Dead(p) == proc[p].closed \/ proc[p].term \/ proc[p].failed

\* C12: nothing is written to the child of a Session that is Closed or
\* Failed, and a call_tool that reaches such a Session is rejected at once
\* with the "session closed" error.
C12_DeadSessionRejects ==
  [][/\ \A p \in Procs : Dead(p) => proc'[p].stdin = proc[p].stdin
     /\ \A t \in Tasks :
          /\ Starts(t, "call_tool")
          /\ task'[t].name \in DOMAIN sessions
          /\ Dead(sessions[task'[t].name])
          => task'[t].pc = "done" /\ task'[t].ret = RetRaise("session closed")]_vars

\* C13: close() on a Session whose close() has already returned returns
\* again: it raises nothing, sends the process no signal and changes nothing.
C13_CloseIdempotent ==
  \A p \in Procs :
    proc[p].closed =>
      LET r == close(St, Idle, p)
      IN r.kind = "ret" /\ r.s = St

\* Task t is suspended in a read of the request with id k.
Reading(t, k) == task[t].pc \in {"read", "chunk"} /\ task[t].rid = k

\* C14: every request comes to an end, also when the child never writes: a
\* task does not stay in the reads of one request for ever.
C14_RequestTerminates ==
  \A t \in Tasks : \A k \in 1..MaxId : Reading(t, k) ~> ~Reading(t, k)

\* The bytes the reader has taken for the message it is reassembling.
RdBytes == rd.line \o rd.add
\* Errors of a peer that was too slow, not of the reassembly.
Timeouts == {"No response from server", "Response incomplete or server hung"}

\* C15: a well-formed response of at most 1 MiB is returned however the
\* transport splits it (the peer staying alive and no read timing out), and
\* reassembling it takes no byte of the message that follows it.
C15_ReassemblyEquivalent ==
  pipe.script.kinds[1] = "res" /\ Len(Message(pipe.script, 1)) <= StreamCap =>
    /\ \A i \in 1..Len(RdBytes) : RdBytes[i].m = 1
    /\ rd.pc = "done" /\ ~pipe.eof /\ rd.msg \notin Timeouts =>
         rd.k = "ret" /\ rd.m = 1

\* C16: the reader never holds more than 1 MiB of one response, and bytes
\* that reached 1 MiB without parsing end the request with "Response too
\* large or malformed".
C16_ReassemblyBounded ==
  /\ Len(RdBytes) <= StreamCap
  /\ rd.pc = "done" /\ rd.k = "exc" /\ Len(RdBytes) >= StreamCap =>
       rd.msg \in {"Response too large or malformed", "Failed to read large response"}

\* The errors that say the response could not be read as JSON.
Malformed == {"Response too large or malformed", "Failed to read large response",
              "Response incomplete or server hung"}

\* C17: when the peer writes one line that is no JSON and nothing more (it
\* stays silent or exits), the request ends with one of the malformed-response
\* errors and returns no response.
C17_MalformedFails ==
  /\ pipe.script.kinds = <<"junk">> /\ Len(pipe.script.blocks) = 1
  /\ rd.line = pipe.script.blocks /\ rd.pc = "done"
  =>
    rd.k = "exc" /\ rd.msg \in Malformed

\* C18: once a request on a Session ended with a protocol error, every later
\* call_tool on that Session fails, until the server is removed and added
\* again (which makes a new Session on a new child).
C18_FailedStaysFailed ==
  [][\A t \in Tasks :
       /\ Finishes(t, "call_tool")
       /\ task'[t].p # 0
       /\ proc[task'[t].p].failed
       => task'[t].ret.k = "raise"]_vars

\* The first handler of hs that can handle the error and has a result for
\* it; 0 when there is none.
FirstResult(hs) ==
  LET S == {i \in 1..Len(hs) : hs[i].can = "true" /\ hs[i].handle = "text"}
  IN IF S = {} THEN 0 ELSE CHOOSE i \in S : \A j \in S : i <= j
\* The handlers handle_error goes through when it returns the result of by.
UpTo(hs, by) == IF by = 0 THEN 1..Len(hs) ELSE 1..by

\* C19: handle_error goes through the handlers in list order and returns the
\* result of the first that can handle the error and has a non-empty result;
\* a handler whose can_handle is false is never asked to handle, and one that
\* returned nothing does not stop the ones after it.
C19_FirstResultWins ==
  hres.pc = "done" /\ hres.k = "ret" =>
    /\ hres.by = FirstResult(hres.hs)
    /\ hres.tried = UpTo(hres.hs, hres.by)
    /\ hres.asked = {i \in UpTo(hres.hs, hres.by) : hres.hs[i].can = "true"}
C19_Witness ==
  /\ hres.pc = "done" /\ hres.k = "ret" /\ hres.by = 3
  /\ hres.hs[1].can = "false" /\ hres.hs[1].handle = "text"
  /\ hres.hs[2].can = "true" /\ hres.hs[2].handle \in {"none", "empty"}

\* A handler that raises an Exception from can_handle or from handle.
Raises(h) == h.can = "raise" \/ (h.can = "true" /\ h.handle = "raise")
OnlyExceptions(hs) == \A i \in 1..Len(hs) : hs[i].can # "base" /\ hs[i].handle # "base"

\* C20: when handlers raise Exceptions, handle_error raises nothing: it
\* returns, every handler after a raising one is still tried, and the result
\* is never that of a handler that raised.
C20_HandlerErrorsCaught ==
  hres.pc = "done" /\ OnlyExceptions(hres.hs) =>
    /\ hres.k = "ret"
    /\ \A i \in 1..Len(hres.hs) :
         Raises(hres.hs[i]) /\ i \in hres.tried =>
           /\ hres.by # i
           /\ \A j \in (i + 1)..Len(hres.hs) :
                (hres.by = 0 \/ j <= hres.by) => j \in hres.tried
C20_Witness ==
  /\ hres.pc = "done" /\ hres.k = "ret" /\ hres.by = 3
  /\ hres.hs[1].can = "raise"
  /\ hres.hs[2].can = "true" /\ hres.hs[2].handle = "raise"

\* C21: handle_error ends with a non-empty message whatever the handlers do
\* with the error (returning, or raising Exceptions): the result of a handler,
\* or the "Unhandled error" text when no handler had one.
C21_AlwaysMessage ==
  hres.pc = "done" /\ OnlyExceptions(hres.hs) =>
    /\ hres.k = "ret"
    /\ hres.msg # ""
    /\ FirstResult(hres.hs) = 0 => hres.msg = "Unhandled error"
C21_Witness ==
  /\ hres.pc = "done" /\ hres.msg = "Unhandled error" /\ Len(hres.hs) = 3
  /\ hres.hs[1].can = "false"
  /\ Raises(hres.hs[2])
  /\ hres.hs[3].can = "true" /\ hres.hs[3].handle \in {"none", "empty"}

\* The retries the handler is configured for: max_retries of the yac
\* handler; the default, 2, where there is no such setting.
Configured == IF impl = "yac" THEN net.max_retries ELSE 2

\* C22: the failing tool is invoked again at most max_retries times; the
\* handler returns the result of the first invocation that succeeds, and the
\* failure summary after exactly max_retries invocations when all fail.
C22_BoundedRetry ==
  net.pc = "done" /\ net.present /\ Configured > 0 =>
    /\ net.n <= Configured
    /\ net.res # "" => net.msg \in {"Network retry successful", "retry_result"}
    /\ net.res = "" => net.n = Configured /\ net.msg = "Network error persisted"

\* C23: add_handler puts the custom handler before all the handlers there
\* were, which keep their order; and when the custom handler does not handle
\* the error (can_handle is False), handle_error returns what it returned
\* without it, the result of the same handler or the same fallback.
C23_CustomFirst ==
  [][Len(handlers') = Len(handlers) + 1 =>
       LET new == handle_error(handlers')
           old == handle_error(handlers)
       IN /\ Tail(handlers') = handlers
          /\ 1 \in new.tried
          /\ handlers'[1].can = "false" =>
               /\ new.k = old.k
               /\ new.msg = old.msg
               /\ new.by = (IF old.by = 0 THEN 0 ELSE old.by + 1)
               /\ 1 \notin new.asked]_vars
C23_Witness ==
  /\ hres.pc = "done" /\ hres.k = "ret" /\ hres.by = 2
  /\ handlers = hres.hs /\ Len(handlers) = 3
  /\ handlers[1].can = "false" /\ handlers[1] \notin Builtin
  /\ handlers[2] \in Builtin /\ handlers[3] \in Builtin

\* The two callers each ran one add_server, for different names, and both
\* calls are over; nothing else was started.
TwoAdds ==
  /\ nops = 2
  /\ \A t \in Tasks : task[t].op = "add_server" /\ task[t].pc = "done"
  /\ \A t, u \in Tasks : t # u => task[t].name # task[u].name

\* C24: add_server calls for different names that overlap do not disturb one
\* another: a call that returned True over stdio has its Session registered
\* under its name, every registered Session is the one its own call made, on
\* its own child, no child was written more than the requests of one
\* add_server, and nothing else is registered - as when the calls run one
\* after the other.
C24_IndependentAdds ==
  TwoAdds =>
    /\ DOMAIN sessions \subseteq {task[t].name : t \in Tasks}
    /\ \A t \in Tasks :
         LET n == task[t].name
             q == task[t].p
         IN /\ task[t].ret = RetBool(TRUE) /\ task[t].cfg.transport = "stdio"
                 => n \in DOMAIN sessions
            /\ n \in DOMAIN sessions =>
                 /\ sessions[n] = q /\ q # 0
                 /\ \A u \in Tasks \ {t} : task[u].p # q
            /\ q # 0 => Len(proc[q].stdin) <= 2
C24_Witness ==
  /\ TwoAdds
  /\ ~serial
  /\ DOMAIN sessions = Names
  /\ \A t \in Tasks : task[t].ret = RetBool(TRUE)

\* Task t is inside an add_server or a remove_server for name n.
Busy(t, n) ==
  /\ task[t].op \in {"add_server", "remove_server"}
  /\ task[t].pc \notin {"idle", "done"}
  /\ task[t].name = n

\* C25: while an add_server or remove_server for a name is running, no other
\* add_server or remove_server for that name changes the registry.
C25_SameNameSerialized ==
  [][\A t, u \in Tasks :
       /\ t # u
       /\ Busy(u, task'[t].name)
       /\ task'[u] = task[u]
       /\ task'[t] # task[t]
       /\ task'[t].op \in {"add_server", "remove_server"}
       => maps' = maps]_vars

\* C26: constructing an MCPServerConfig succeeds exactly when transport is
\* one of the three members and the field it requires has content (command
\* for STDIO, url for SSE and HTTP); every other construction raises
\* ValueError.
C26_ConfigValidated ==
  made.pc = "done" =>
    LET valid == \/ made.transport = "STDIO" /\ made.command = "full"
                 \/ made.transport \in {"SSE", "HTTP"} /\ made.url = "full"
    IN /\ valid => made.k = "ok"
       /\ ~valid => made.k = "ValueError"

\* C27: add_server with an SSE or HTTP config fails at once: it returns
\* False, spawns no process and registers no Session.
C27_NonStdioRejected ==
  [][\A t \in Tasks :
       Starts(t, "add_server") /\ task'[t].cfg.transport # "stdio" =>
         /\ task'[t].pc = "done"
         /\ task'[t].ret = RetBool(FALSE)
         /\ nprocs' = nprocs
         /\ sessions' = sessions]_vars

\* C28: add_server tries a failed connection again: it does not give up, and
\* return False, after a single connect attempt on a command that exists.
C28_RetriesConnect ==
  \A t \in Tasks :
    /\ nops = 1
    /\ task[t].op = "add_server" /\ task[t].pc = "done"
    /\ task[t].cfg.transport = "stdio" /\ task[t].cfg.command = "ok"
    /\ task[t].ret = RetBool(FALSE)
    => nprocs >= 2

\* C29: the k-th request written to a child carries id k: initialize has id
\* 1, and the ids go up by one with each request.
C29_RequestIds ==
  \A p \in Procs : \A i \in 1..Len(proc[p].stdin) : proc[p].stdin[i].id = i

\* The children Sessions are registered for.
Registered == {sessions[n] : n \in DOMAIN sessions}

\* C30: the first request written to a child is initialize; a second request
\* is written to it, and a Session is registered for it, only after the
\* response to that initialize request was read and carried no error.
C30_HandshakeFirst ==
  \A p \in Procs :
    /\ proc[p].stdin # <<>> => proc[p].stdin[1].method = "initialize"
    /\ Len(proc[p].stdin) >= 2 \/ p \in Registered =>
         proc[p].init = "response"

\* The child wrote whole JSON lines only; Read: how many of them the reader
\* took, while the child lives (what it has not written yet is still pending).
Clean == \A m \in 1..Len(pipe.script.kinds) :
           pipe.script.kinds[m] # "junk" /\ Len(Message(pipe.script, m)) = 1
Read == Len(pipe.script.blocks) - Len(pipe.pending) - Len(pipe.buf)
\* The lines that answer the request, among the first n the child wrote.
Matching(n) == {m \in 1..Len(pipe.script.kinds) :
                  m <= n /\ pipe.script.kinds[m] = "res"}

\* C31 (yac): for one response at most max_attempts lines are read; when
\* max_attempts lines were read and none answers the request the request
\* fails with "Could not find matching response", and for no other reason;
\* a line that answers it, read among those, the last included, is returned.
C31_SkippingBounded ==
  Clean /\ pipe.eof = FALSE =>
    /\ Read <= max_attempts
    /\ rd.pc = "done" /\ Read = max_attempts /\ Matching(Read) = {} =>
         rd.k = "exc" /\ rd.msg = "Could not find matching response"
    /\ rd.msg = "Could not find matching response" =>
         Read = max_attempts /\ Matching(Read) = {}
    /\ \A m \in Matching(Read) : rd.pc = "done" /\ rd.k = "ret" /\ rd.m = m

\* C31, its case: the response is the last line the loop reads.
C31_Witness ==
  Clean /\ rd.pc = "done" /\ rd.k = "ret" /\ rd.m = max_attempts
        /\ Read = max_attempts

\* C32: close() sends SIGKILL only to a child that it sent SIGTERM before and
\* that is still running when the grace period of a close() waiting for it
\* elapses, never to one that has exited; and a close() has returned only
\* when the child has exited.
C32_CloseEscalates ==
  [][\A p \in Procs :
       /\ proc'[p].kill /\ ~proc[p].kill =>
            /\ proc[p].term /\ proc[p].st = "running"
            /\ \E t \in Tasks : task[t].pc = "wait" /\ task[t].p = p
       /\ proc'[p].closed => proc'[p].st \in {"exited", "reaped"}]_vars

\* C32, its case: one close() has escalated and returned, another has
\* returned for a child that exited on SIGTERM within the grace period.
C32_Witness ==
  \E p, q \in Procs :
    /\ proc[p].closed /\ proc[p].kill
    /\ proc[q].closed /\ proc[q].term /\ ~proc[q].kill

\* C33: a close_all that has finished, whatever remove_server ran while it
\* was suspended, raised nothing, left no Session and no cache entry, and
\* every child has been sent SIGTERM or has exited.
C33_CloseAllTolerant ==
  \A t \in Tasks :
    task[t].op = "close_all" /\ task[t].pc = "done" =>
      /\ task[t].ret = NoRet
      /\ DOMAIN sessions = {}
      /\ DOMAIN tools_cache = {}
      /\ \A p \in Procs : proc[p].term \/ proc[p].st # "running"

\* 1 + 2 + ... + k.
Tri(k) == (k * (k + 1)) \div 2

\* C35 (yac): when the tool is about to be invoked for the k-th time the
\* handler has slept retry_delay * (1 + ... + k) in all, that is
\* retry_delay * k before the k-th attempt; and when the k-th invocation
\* succeeded it has slept no longer than that.
C35_LinearDelay ==
  impl = "yac" =>
    /\ net.pc = "invoke" =>
         net.n = net.attempt /\ net.slept = net.retry_delay * Tri(net.attempt + 1)
    /\ net.pc = "done" /\ net.msg = "Network retry successful" =>
         net.slept = net.retry_delay * Tri(net.n)

\* C35, its case: the third attempt succeeded.
C35_Witness ==
  /\ impl = "yac" /\ net.pc = "done" /\ net.msg = "Network retry successful"
  /\ net.n = 3 /\ net.retry_delay = 2 /\ net.slept = 12

\* The handlers that only advise.
Advisers == {"FileNotFoundHandler", "PermissionErrorHandler",
             "DirectoryNotFoundHandler", "ProcessErrorHandler"}

\* C34: a tool is invoked only by the handle of the NetworkErrorHandler: while
\* and after any of the four other built-in handlers is asked, and when one of
\* them has answered, no tool has been invoked and no retry was begun.
C34_OnlyNetworkInvokes ==
  /\ net.pc # "none" => Builtins[chain.i] = "NetworkErrorHandler"
  /\ chain.pc = "done" /\ chain.by \in Advisers =>
       net.n = 0 /\ net.pc = "none" /\ chain.msg = handle(chain.by, chain)

\* C34, its case: each of the four advisers has answered an error for a tool
\* that is in the catalog; here the PermissionErrorHandler.
C34_Witness ==
  /\ chain.pc = "done" /\ chain.by = "PermissionErrorHandler"
  /\ chain.present /\ chain.tool_name = "write_file"

\* C37: an error whose text contains a phrase of the
\* DirectoryNotFoundHandler (and no phrase that does not come with it), for
\* arguments with a path, is answered by the DirectoryNotFoundHandler with
\* its advice to check the parent directory.
C37_DirectoryAnswered ==
  /\ chain.pc = "done"
  /\ \E p \in phrases.DirectoryNotFoundHandler : chain.err = Text({p})
  /\ chain.args = "path"
  => /\ chain.by = "DirectoryNotFoundHandler"
     /\ chain.msg = "Directory not found, check parent"

\* The tools of the cache, all catalogs together.
RECURSIVE Cached(_)
Cached(cache) ==
  IF DOMAIN cache = {} THEN 0
  ELSE LET n == CHOOSE x \in DOMAIN cache : TRUE
       IN Len(cache[n]) + Cached(Del(cache, n))

\* C36 (yac): what get_all_tools returned has as many entries as the cache
\* has tools, and holds each tool of each server's catalog, with the name of
\* that server, as often as that catalog holds it.
C36_GetAllTools ==
  \A t \in Tasks :
    task[t].op = "get_all_tools" /\ task[t].pc = "done" =>
      LET r == task[t].ret.m
      IN /\ Len(r) = Cached(tools_cache)
         /\ \A n \in Names, d \in Descriptors :
              Cardinality({j \in 1..Len(r) : r[j] = with_server(d, n)})
                = IF n \in DOMAIN tools_cache
                  THEN Cardinality({i \in 1..Len(tools_cache[n]) :
                                      tools_cache[n][i] = d})
                  ELSE 0

\* C36, its case: two servers list a tool of the same name, one of them
\* another tool too.
C36_Witness ==
  \E t \in Tasks :
    /\ task[t].op = "get_all_tools" /\ task[t].pc = "done"
    /\ Len(task[t].ret.m) = 3
    /\ \E i, j \in 1..3 :
         /\ task[t].ret.m[i].name = task[t].ret.m[j].name
         /\ task[t].ret.m[i].server_name # task[t].ret.m[j].server_name

\* C38: the response to a request that failed with a timeout, arriving late,
\* is not what a later request on the same Session returns.
C38_StaleSkipped ==
  \A t \in Tasks :
    task[t].resp # NoLine /\ task[t].p # 0 =>
      LET late == proc[task[t].p].late
      IN ~(late # 0 /\ late < task[t].rid /\ task[t].resp.id = late)

\* C39 (yac): every name that has a cache entry has a registered Session.
C39_CacheHasSession == DOMAIN tools_cache \subseteq DOMAIN sessions

\* C40: when a Session is registered under a name that has a Session on
\* another child, that child has exited or has been sent SIGTERM: no running
\* child is left without a Session that owns it.
C40_OldSessionTerminated ==
  [][\A n \in DOMAIN sessions :
       n \in DOMAIN sessions' /\ sessions'[n] # sessions[n] =>
         LET old == proc'[sessions[n]]
         IN old.st # "running" \/ old.term]_vars

====
